---- MODULE Spec2Model ----
(***************************************************************************)
(* A model of the on-chain synchronisation and transaction-queue layer of  *)
(* the game client: ContractsAPI (pre-flight checks, gas-fee policy,       *)
(* transaction notifications, contract-event rebroadcast, paginated bulk   *)
(* reads) and the lobby store kept in local storage.                       *)
(*                                                                         *)
(* The module holds one specification per subsystem.  Every specification  *)
(* constrains all variables: the variables of the subsystems it does not   *)
(* exercise are parked at a fixed value and left unchanged.                *)
(***************************************************************************)
EXTENDS Integers, Sequences, FiniteSets, TLC

VARIABLES
  \* ---- transaction layer (ContractsAPI + TxExecutor) ----
  phase,        \* per submitTransaction call: where the call stands
  from,         \* per call: `address` read by beforeQueued
  loaded,       \* per call: `balance` loaded by beforeQueued, until the hook returns
  rejection,    \* per call: the error the pre-queue check threw, if any
  queue,        \* the executor's waiting tasks, head first
  sending,      \* the transactions the executor is sending right now
  submitted,    \* per transaction: state of tx.submittedPromise
  confirmed,    \* per transaction: state of tx.confirmedPromise
  log,          \* per call: what was observed of it, in order of occurrence
  queuedOrder,  \* the transactions in the order in which they were queued
  sentOrder,    \* the transactions in the order in which they were sent
  cancelEmits,  \* per transaction: TxCancelled notifications emitted
  prioEmits,    \* per transaction: TxPrioritized notifications emitted
  cancelledWaiting, \* transactions cancelled while they waited in the queue
  prioSince     \* the waiting transactions prioritized since the executor last
                \* began a transaction, in the order of the calls

VARIABLES
  \* ---- gas-fee policy (ContractsAPI.getGasFeeForTransaction) ----
  contractAddress,  \* this.contractAddress, set by the constructor
  account,          \* ethConnection.getAddress()
  settings,         \* the stored GasFeeGwei setting per (contract address, account)
  gasTx,            \* the transaction of the last getGasFeeForTransaction call
  gasFee            \* what that call returned

txVars == <<phase, from, loaded, rejection, queue, sending, submitted,
            confirmed, log, queuedOrder, sentOrder, cancelEmits,
            prioEmits, cancelledWaiting, prioSince>>

VARIABLES
  \* ---- contract events (ContractsAPI.setupEventListeners) ----
  delivered,      \* the contract events delivered to their handlers, in order
  notifications   \* per delivered event: the notifications its handler emitted

eventVars == <<delivered, notifications>>

VARIABLES
  \* ---- bulk reads (ContractsAPI getters over aggregateBulkGetter) ----
  bulkPc,      \* "idle", "paging", "aggregated" or "done"
  method,      \* the getter that is running
  stage,       \* which of the getter's bulk reads is running
  startingAt,  \* the getter's startingAt argument (0 where it has none)
  nItems,      \* the count the contract reports (getNPlayers, getNPlanets, ...)
  list,        \* the array the running bulk read slices its windows from
  calls,       \* per page: the window and what was sent to the contract
  pageItems,   \* the items of the pages whose contract call has returned
  bulkResult   \* what aggregateBulkGetter resolved to

VARIABLES
  \* ---- lobby store (module state after ContractsAPI) ----
  localStorage,  \* the browser's local storage: key -> item
  lobbies,       \* the in-memory list of lobbies
  added          \* how many addLobby calls have been made

lobbyVars == <<localStorage, lobbies, added>>

VARIABLES
  \* ---- lobbyAddressMnemonic (Utils/LobbyUtils) ----
  mnemonicPc,   \* "idle", "encoded" or "decoded"
  lobbyInput,   \* the address the first call was given
  encoded,      \* what lobbyAddressMnemonic returned for the address
  decoded       \* what it returned for the mnemonic of the first result

mnemonicVars == <<mnemonicPc, lobbyInput, encoded, decoded>>

VARIABLES
  \* ---- getConstants ----
  contractConstants,  \* what the contract's views report
  constants,          \* what getConstants returned
  constantsPc         \* "idle" or "returned"

constantsVars == <<contractConstants, constants, constantsPc>>

VARIABLES
  \* ---- the subscription to contract events ----
  listeners,   \* the events whose handler is still installed
  destroyed,   \* destroy() was called
  outcomes     \* per contract log: what became of it

subscriptionVars == <<listeners, destroyed, outcomes>>

VARIABLES
  \* ---- bulkGetPlanets, after its bulk reads ----
  toLoadPlanets,            \* the ids bulkGetPlanets was asked for
  rawPlanets,               \* the aggregated answers of the three views
  rawPlanetsExtendedInfo,
  rawPlanetsExtendedInfo2,
  planets,                  \* the map bulkGetPlanets returned
  planetsPc                 \* "decoding", "returned" or "threw"

planetsVars == <<toLoadPlanets, rawPlanets, rawPlanetsExtendedInfo,
                 rawPlanetsExtendedInfo2, planets, planetsPc>>

VARIABLES
  \* ---- getPlanetById ----
  storage,                  \* the contract: isInitialized of both records of every id
  byIdPc,                   \* "idle", "info2" or "test"
  planetId,                 \* the id getPlanetById was called with
  byIdReads,                \* the contract reads the call issued, in order
  byIdExtendedInfo,         \* rawExtendedInfo
  byIdExtendedInfo2,        \* rawExtendedInfo2
  byIdResult                \* what the call returned

byIdVars == <<storage, byIdPc, planetId, byIdReads, byIdExtendedInfo, byIdExtendedInfo2,
              byIdResult>>

VARIABLES
  \* ---- planets not yet in the contract ----
  genConstants,             \* the contract constants the functions read
  genLocation,              \* the location (hash, perlin) they are called with
  genCalled,                \* the function called last
  genResult                 \* what it returned

generatorVars == <<genConstants, genLocation, genCalled, genResult>>

VARIABLES
  \* ---- planetCanUpgrade ----
  upgradePlanet,            \* the planet planetCanUpgrade is called with
  upgradeCalled,            \* planetCanUpgrade has returned
  canUpgrade                \* what it returned

upgradeVars == <<upgradePlanet, upgradeCalled, canUpgrade>>

bulkVars == <<bulkPc, method, stage, startingAt, nItems, list, calls, pageItems,
              bulkResult>>

gasVars == <<contractAddress, account, settings, gasTx, gasFee>>

vars == <<txVars, gasVars, eventVars, bulkVars, lobbyVars, mnemonicVars,
         constantsVars, subscriptionVars, planetsVars, byIdVars, generatorVars,
         upgradeVars>>

(***************************************************************************)
(* Bounds of the model.                                                    *)
(***************************************************************************)
MaxTx == 2
MaxCancel == 1
MaxPrioritize == 2

TxIds == 1..MaxTx

(***************************************************************************)
(* Balances.  A balance is a number of wei; 0.002 ether is 2 * 10^15 wei,  *)
(* which is kept exactly as a pair (gwei, wei below one gwei).             *)
(***************************************************************************)
WeiPerGwei == 1000000000
MinBalanceGwei == 2000000

MIN_BALANCE == [gwei |-> MinBalanceGwei, wei |-> 0]

\* EthersBN.lt
lt(a, b) == \/ a.gwei < b.gwei
            \/ a.gwei = b.gwei /\ a.wei < b.wei

NoBalance == [gwei |-> -1, wei |-> 0]

Balances == { [gwei |-> MinBalanceGwei - 1, wei |-> WeiPerGwei - 1],
              MIN_BALANCE,
              [gwei |-> MinBalanceGwei, wei |-> 1] }

NoSigner == "undefined"
Signers == {NoSigner, "0xplayer"}

NoError == "none"
ErrNoSigner == "can't send a transaction, no signer"
ErrBalance == "xDAI balance too low!"
ErrDeclined == "confirmation declined"

Count(e, id) == Cardinality({i \in DOMAIN log[id] : log[id][i] = e})

RECURSIVE Sum(_, _)
Sum(f, S) == IF S = {} THEN 0
             ELSE LET x == CHOOSE y \in S : TRUE IN f[x] + Sum(f, S \ {x})

Occurs(e, id) == \E i \in DOMAIN log[id] : log[id][i] = e

\* the position of the first occurrence in a sequence (0 when there is none)
Pos(s, x) == IF \E i \in DOMAIN s : s[i] = x
             THEN CHOOSE i \in DOMAIN s :
                    /\ s[i] = x
                    /\ \A j \in 1..(i - 1) : s[j] # x
             ELSE 0

RECURSIVE Without(_, _)
Without(s, x) == IF s = <<>> THEN <<>>
                 ELSE IF Head(s) = x THEN Without(Tail(s), x)
                 ELSE <<Head(s)>> \o Without(Tail(s), x)

InSeq(s, x) == \E i \in DOMAIN s : s[i] = x

TxInit ==
  /\ phase = [i \in TxIds |-> "new"]
  /\ from = [i \in TxIds |-> NoSigner]
  /\ loaded = [i \in TxIds |-> NoBalance]
  /\ rejection = [i \in TxIds |-> NoError]
  /\ queue = <<>>
  /\ sending = {}
  /\ submitted = [i \in TxIds |-> "pending"]
  /\ confirmed = [i \in TxIds |-> "pending"]
  /\ log = [i \in TxIds |-> <<>>]
  /\ queuedOrder = <<>>
  /\ sentOrder = <<>>
  /\ cancelEmits = [i \in TxIds |-> 0]
  /\ prioEmits = [i \in TxIds |-> 0]
  /\ cancelledWaiting = {}
  /\ prioSince = <<>>

(***************************************************************************)
(* TxExecutor (package @darkforest_eth/network, not part of the sources):  *)
(* the queue component.  It is modelled from its description: it calls the *)
(* pre-queue hook before a transaction is queued and queues nothing when   *)
(* the hook rejects, it keeps the waiting transactions in order, sends one *)
(* at a time, calls the pre-send hook before each send, removes a          *)
(* transaction on request and moves one to the front on request.           *)
(***************************************************************************)
MaxConcurrency == 1

\* queueTransaction, after the pre-queue hook resolved: the task joins the queue
queueAdd(q, id) == Append(q, id)

\* dequeueTransction: the task, when still waiting, leaves the queue
dequeueTransction(q, id) == Without(q, id)

\* prioritizeTransaction of the executor: a waiting task moves to the front
executorPrioritize(q, id) == IF InSeq(q, id) THEN <<id>> \o Without(q, id) ELSE q

\* the executor may start its next task
canExecute(q, s) == q # <<>> /\ Cardinality(s) < MaxConcurrency

(***************************************************************************)
(* ContractsAPI.beforeQueued: the pre-queue check.                         *)
(***************************************************************************)
\* `if (!address) throw`
hasSigner(a) == a # NoSigner

\* faulty variant: `lte` in place of `lt`
balanceTooLowOrEqual(b) == ~lt(MIN_BALANCE, b)

\* `balance.lt(ContractsAPI.MIN_BALANCE)`
balanceTooLow(b) == lt(b, MIN_BALANCE)

\* submitTransaction calls queueTransaction, which calls beforeQueued; the
\* hook runs to its first await (loadBalance) or throws for want of a signer.
\* A rejection of the hook rejects queueTransaction and so submitTransaction.
submitTransaction(id, a) ==
  /\ phase[id] = "new"
  /\ \A j \in TxIds : j < id => phase[j] # "new"
  /\ from' = [from EXCEPT ![id] = a]
  /\ IF hasSigner(a)
     THEN /\ phase' = [phase EXCEPT ![id] = "loadBalance"]
          /\ UNCHANGED rejection
     ELSE /\ phase' = [phase EXCEPT ![id] = "rejected"]
          /\ rejection' = [rejection EXCEPT ![id] = ErrNoSigner]
  /\ UNCHANGED <<loaded, queue, sending, submitted, confirmed, log,
                 queuedOrder, sentOrder, cancelEmits, prioEmits,
                 cancelledWaiting, prioSince>>

\* faulty variant: the confirmation window is opened but not awaited, so the
\* hook returns at once and the executor queues the transaction
beforeQueuedBalanceNoAwait(id, b) ==
  /\ phase[id] = "loadBalance"
  /\ IF balanceTooLow(b)
     THEN /\ log' = [log EXCEPT ![id] = Append(@, "balanceEmpty")]
          /\ loaded' = [loaded EXCEPT ![id] = b]
          /\ phase' = [phase EXCEPT ![id] = "rejected"]
          /\ rejection' = [rejection EXCEPT ![id] = ErrBalance]
          /\ UNCHANGED <<queue, queuedOrder>>
     ELSE /\ log' = [log EXCEPT ![id] = @ \o <<"confirmOpen", "enqueue">>]
          /\ loaded' = [loaded EXCEPT ![id] = NoBalance]
          /\ phase' = [phase EXCEPT ![id] = "enqueued"]
          /\ queue' = queueAdd(queue, id)
          /\ queuedOrder' = Append(queuedOrder, id)
          /\ UNCHANGED rejection
  /\ UNCHANGED <<from, sending, submitted, confirmed, sentOrder, cancelEmits,
                 prioEmits, cancelledWaiting, prioSince>>

\* beforeQueued resumes with the balance: the balance check, then either the
\* notification and the throw, or the confirmation window is opened.
beforeQueuedBalance(id, b) ==
  /\ phase[id] = "loadBalance"
  /\ loaded' = [loaded EXCEPT ![id] = b]
  /\ IF balanceTooLow(b)
     THEN /\ log' = [log EXCEPT ![id] = Append(@, "balanceEmpty")]
          /\ phase' = [phase EXCEPT ![id] = "rejected"]
          /\ rejection' = [rejection EXCEPT ![id] = ErrBalance]
     ELSE /\ log' = [log EXCEPT ![id] = Append(@, "confirmOpen")]
          /\ phase' = [phase EXCEPT ![id] = "confirm"]
          /\ UNCHANGED rejection
  /\ UNCHANGED <<from, queue, sending, submitted, confirmed,
                 queuedOrder, sentOrder, cancelEmits, prioEmits,
                 cancelledWaiting, prioSince>>

\* the confirmation window resolves: beforeQueued returns and the executor
\* queues the transaction
confirmationResolved(id) ==
  /\ phase[id] = "confirm"
  /\ phase' = [phase EXCEPT ![id] = "enqueued"]
  /\ queue' = queueAdd(queue, id)
  /\ queuedOrder' = Append(queuedOrder, id)
  /\ log' = [log EXCEPT ![id] = @ \o <<"confirmResolved", "enqueue">>]
  /\ loaded' = [loaded EXCEPT ![id] = NoBalance]
  /\ UNCHANGED <<from, rejection, sending, submitted, confirmed,
                 sentOrder, cancelEmits, prioEmits,
                 cancelledWaiting, prioSince>>

\* the user declines: the window's promise rejects, and beforeQueued with it
confirmationRejected(id) ==
  /\ phase[id] = "confirm"
  /\ phase' = [phase EXCEPT ![id] = "rejected"]
  /\ rejection' = [rejection EXCEPT ![id] = ErrDeclined]
  /\ UNCHANGED <<from, loaded, queue, sending, submitted, confirmed, log,
                 queuedOrder, sentOrder, cancelEmits, prioEmits,
                 cancelledWaiting, prioSince>>

(***************************************************************************)
(* ContractsAPI.submitTransaction after its await, and the notifications.  *)
(***************************************************************************)
\* faulty variant: the rejection of queueTransaction is swallowed
queueTransactionSettled(p) == p \in {"enqueued", "rejected"}

\* faulty variant: the handlers are attached at once and TxQueued comes last
submitTransactionResumeListening(id) ==
  /\ phase[id] = "enqueued"
  /\ phase' = [phase EXCEPT ![id] = "listening"]
  /\ log' = [log EXCEPT ![id] =
               (@ \o (IF submitted[id] = "resolved" THEN <<"TxSubmitted">> ELSE <<>>))
                  \o <<"TxQueued">>]
  /\ UNCHANGED <<from, loaded, rejection, queue, sending, submitted, confirmed,
                 queuedOrder, sentOrder, cancelEmits, prioEmits,
                 cancelledWaiting, prioSince>>

\* the await of queueTransaction yields a transaction
queueTransactionResolved(p) == p = "enqueued"

\* emit TxQueued, then setTimeout(() => emitTransactionEvents(queuedTx), 0)
submitTransactionResume(id) ==
  /\ queueTransactionResolved(phase[id])
  /\ phase' = [phase EXCEPT ![id] = "timer"]
  /\ log' = [log EXCEPT ![id] = Append(@, "TxQueued")]
  /\ UNCHANGED <<from, loaded, rejection, queue, sending, submitted, confirmed,
                 queuedOrder, sentOrder, cancelEmits, prioEmits,
                 cancelledWaiting, prioSince>>

\* faulty variant: the handlers of confirmedPromise are attached first
reactionsConfirmedFirst(sub0, conf0, sub, conf) ==
  LET newSub  == sub0 = "pending" /\ sub # "pending"
      newConf == conf0 = "pending" /\ conf # "pending"
      tick1 == (IF newConf /\ conf = "resolved" THEN <<"TxConfirmed">> ELSE <<>>)
               \o (IF newSub /\ sub = "resolved" THEN <<"TxSubmitted">> ELSE <<>>)
      tick2 == (IF newConf /\ conf = "rejected" THEN <<"TxErrored">> ELSE <<>>)
               \o (IF newSub /\ sub = "rejected" THEN <<"TxErrored">> ELSE <<>>)
  IN tick1 \o tick2

\* What the handlers attached by emitTransactionEvents emit once the promises
\* stand at (sub, conf), having stood at (sub0, conf0) when the handlers last
\* ran.  Promise reactions run as microtasks: a `then` callback runs one tick
\* after its promise settles, a `catch` chained behind it one tick later.
reactions(sub0, conf0, sub, conf) ==
  LET newSub  == sub0 = "pending" /\ sub # "pending"
      newConf == conf0 = "pending" /\ conf # "pending"
      tick1 == (IF newSub /\ sub = "resolved" THEN <<"TxSubmitted">> ELSE <<>>)
               \o (IF newConf /\ conf = "resolved" THEN <<"TxConfirmed">> ELSE <<>>)
      tick2 == (IF newSub /\ sub = "rejected" THEN <<"TxErrored">> ELSE <<>>)
               \o (IF newConf /\ conf = "rejected" THEN <<"TxErrored">> ELSE <<>>)
  IN tick1 \o tick2

\* the timer fires: the then/catch handlers are attached to both promises, and
\* run at once for a promise that has already settled
emitTransactionEvents(id) ==
  /\ phase[id] = "timer"
  /\ phase' = [phase EXCEPT ![id] = "listening"]
  /\ log' = [log EXCEPT ![id] =
               @ \o reactions("pending", "pending", submitted[id], confirmed[id])]
  /\ UNCHANGED <<from, loaded, rejection, queue, sending, submitted, confirmed,
                 queuedOrder, sentOrder, cancelEmits, prioEmits,
                 cancelledWaiting, prioSince>>

\* the handlers of a transaction, when attached, run as its promises settle
settled(id, sub, conf) ==
  IF phase[id] = "listening"
  THEN reactions(submitted[id], confirmed[id], sub, conf)
  ELSE <<>>

\* faulty variant: the pre-send hook emits TxProcessing twice
beforeTransactionTwice(l) == Append(Append(l, "TxProcessing"), "TxProcessing")

\* beforeTransaction: the pre-send hook only emits TxProcessing
beforeTransaction(l) == Append(l, "TxProcessing")

\* a transaction object is in the hands of the callers once TxQueued was
\* emitted and submitTransaction returned it
known(id) == phase[id] \in {"timer", "listening"}

\* faulty variant: TxCancelled is emitted and the executor is not told
cancelTransactionEmitOnly(id) ==
  /\ known(id)
  /\ Sum(cancelEmits, TxIds) < MaxCancel
  /\ cancelEmits' = [cancelEmits EXCEPT ![id] = @ + 1]
  /\ UNCHANGED <<phase, from, loaded, rejection, queue, sending, submitted,
                 confirmed, log, queuedOrder, sentOrder, prioEmits,
                 cancelledWaiting, prioSince>>

\* cancelTransaction: dequeue, then emit TxCancelled
cancelTransaction(id) ==
  /\ known(id)
  /\ Sum(cancelEmits, TxIds) < MaxCancel
  /\ queue' = dequeueTransction(queue, id)
  /\ cancelEmits' = [cancelEmits EXCEPT ![id] = @ + 1]
  /\ cancelledWaiting' = IF InSeq(queue, id) THEN cancelledWaiting \cup {id}
                         ELSE cancelledWaiting
  /\ prioSince' = Without(prioSince, id)
  /\ UNCHANGED <<phase, from, loaded, rejection, sending, submitted, confirmed,
                 log, queuedOrder, sentOrder, prioEmits>>

\* faulty variant: TxPrioritized is emitted and the executor is not told
prioritizeTransactionEmitOnly(id) ==
  /\ known(id)
  /\ Sum(prioEmits, TxIds) < MaxPrioritize
  /\ prioEmits' = [prioEmits EXCEPT ![id] = @ + 1]
  /\ prioSince' = IF InSeq(queue, id) THEN Append(Without(prioSince, id), id)
                  ELSE prioSince
  /\ UNCHANGED <<phase, from, loaded, rejection, queue, sending, submitted,
                 confirmed, log, queuedOrder, sentOrder, cancelEmits,
                 cancelledWaiting>>

\* prioritizeTransaction: prioritize, then emit TxPrioritized
prioritizeTransaction(id) ==
  /\ known(id)
  /\ Sum(prioEmits, TxIds) < MaxPrioritize
  /\ queue' = executorPrioritize(queue, id)
  /\ prioEmits' = [prioEmits EXCEPT ![id] = @ + 1]
  /\ prioSince' = IF InSeq(queue, id) THEN Append(Without(prioSince, id), id)
                  ELSE prioSince
  /\ UNCHANGED <<phase, from, loaded, rejection, sending, submitted, confirmed,
                 log, queuedOrder, sentOrder, cancelEmits,
                 cancelledWaiting>>

(***************************************************************************)
(* The executor at work.                                                   *)
(***************************************************************************)
\* faulty variant: the executor takes the task queued last
newestTask(q) == q[Len(q)]

\* the task the executor takes next
nextTask(q) == Head(q)

\* the executor takes its next task, runs the pre-send hook and sends
executeNext ==
  /\ canExecute(queue, sending)
  /\ LET id == nextTask(queue) IN
       /\ queue' = Without(queue, id)
       /\ sending' = sending \cup {id}
       /\ log' = [log EXCEPT ![id] = Append(beforeTransaction(@), "send")]
       /\ sentOrder' = Append(sentOrder, id)
  /\ prioSince' = <<>>
  /\ UNCHANGED <<phase, from, loaded, rejection, submitted, confirmed,
                 queuedOrder, cancelEmits, prioEmits, cancelledWaiting>>

\* the submission settles: the transaction was accepted by the node, or failed.
\* A failed submission may or may not reject the confirmation as well.
submissionSettles(id, ok, alsoConfirmed) ==
  /\ id \in sending
  /\ sending' = sending \ {id}
  /\ LET sub  == IF ok THEN "resolved" ELSE "rejected"
         conf == IF ~ok /\ alsoConfirmed THEN "rejected" ELSE confirmed[id]
     IN /\ submitted' = [submitted EXCEPT ![id] = sub]
        /\ confirmed' = [confirmed EXCEPT ![id] = conf]
        /\ log' = [log EXCEPT ![id] = @ \o settled(id, sub, conf)]
  /\ UNCHANGED <<phase, from, loaded, rejection, queue,
                 queuedOrder, sentOrder, cancelEmits, prioEmits,
                 cancelledWaiting, prioSince>>

\* the receipt arrives, or waiting for it fails
confirmationSettles(id, ok) ==
  /\ submitted[id] = "resolved"
  /\ confirmed[id] = "pending"
  /\ LET conf == IF ok THEN "resolved" ELSE "rejected"
     IN /\ confirmed' = [confirmed EXCEPT ![id] = conf]
        /\ log' = [log EXCEPT ![id] = @ \o settled(id, submitted[id], conf)]
  /\ UNCHANGED <<phase, from, loaded, rejection, queue, sending, submitted,
                 queuedOrder, sentOrder, cancelEmits, prioEmits,
                 cancelledWaiting, prioSince>>

TxNext ==
  \/ \E id \in TxIds, a \in Signers : submitTransaction(id, a)
  \/ \E id \in TxIds, b \in Balances : beforeQueuedBalance(id, b)
  \/ \E id \in TxIds : confirmationResolved(id)
  \/ \E id \in TxIds : confirmationRejected(id)
  \/ \E id \in TxIds : submitTransactionResume(id)
  \/ \E id \in TxIds : emitTransactionEvents(id)
  \/ \E id \in TxIds : cancelTransaction(id)
  \/ \E id \in TxIds : prioritizeTransaction(id)
  \/ executeNext
  \/ \E id \in TxIds, ok \in BOOLEAN, c \in BOOLEAN : submissionSettles(id, ok, c)
  \/ \E id \in TxIds, ok \in BOOLEAN : confirmationSettles(id, ok)

(***************************************************************************)
(* Properties of the transaction layer, checked under Spec.                *)
(***************************************************************************)
Last(s) == s[Len(s)]

\* the step appends exactly the event e to the log of call id
Appends(id, e) == log'[id] = Append(log[id], e)

\* C1: a call whose loaded balance is strictly below MIN_BALANCE (0.002 ether)
\* is rejected with 'xDAI balance too low!', the balance-empty notification is
\* raised for it (once), no confirmation window is opened for it and it is not
\* queued; a balance equal to MIN_BALANCE passes the check: the window opens.
C1_LowBalanceRejected ==
  \A id \in TxIds :
    /\ (loaded[id] # NoBalance /\ lt(loaded[id], MIN_BALANCE)) =>
         /\ phase[id] = "rejected"
         /\ rejection[id] = "xDAI balance too low!"
         /\ Count("balanceEmpty", id) = 1
         /\ ~Occurs("confirmOpen", id)
         /\ ~Occurs("enqueue", id)
         /\ ~InSeq(queue, id)
         /\ ~InSeq(queuedOrder, id)
    /\ loaded[id] = [gwei |-> 2000000, wei |-> 0] =>
         /\ rejection[id] # "xDAI balance too low!"
         /\ ~Occurs("balanceEmpty", id)
         /\ Count("confirmOpen", id) = 1

\* one call was rejected one wei short of the minimum while another, with
\* exactly the minimum, has its confirmation window open
C1_Witness ==
  \E a, b \in TxIds :
    /\ loaded[a] = [gwei |-> 1999999, wei |-> 999999999]
    /\ rejection[a] = ErrBalance
    /\ loaded[b] = MIN_BALANCE
    /\ phase[b] = "confirm"

NotificationEvents == {"TxQueued", "TxProcessing", "TxSubmitted", "TxConfirmed",
                       "TxErrored"}

\* C2: a call the pre-queue check rejected (no signer, balance too low, or the
\* confirmation declined) stays rejected, its transaction is never queued or
\* sent, and none of TxQueued, TxProcessing, TxSubmitted, TxConfirmed, TxErrored
\* is ever emitted for it.
C2_RejectedNeverNotified ==
  /\ [](\A id \in TxIds :
          rejection[id] # NoError =>
            /\ phase[id] = "rejected"
            /\ \A i \in DOMAIN log[id] :
                 log[id][i] \notin NotificationEvents \cup {"enqueue", "send"}
            /\ ~InSeq(queue, id)
            /\ ~InSeq(queuedOrder, id)
            /\ ~InSeq(sentOrder, id)
            /\ id \notin sending
            /\ submitted[id] = "pending"
            /\ confirmed[id] = "pending")
  /\ [][\A id \in TxIds :
          rejection[id] # NoError => rejection'[id] = rejection[id]]_vars

\* one call was rejected for want of a signer and another because the user
\* declined the confirmation
C2_Witness ==
  \E a, b \in TxIds :
    /\ rejection[a] = ErrNoSigner
    /\ rejection[b] = ErrDeclined
    /\ Occurs("confirmOpen", b)

\* C3: the confirmation window is opened only in a call that found a signer
\* and whose balance passed the check, at most once per call, and the
\* transaction joins the queue only after the confirmation has resolved.
C3_ConfirmationOrder ==
  /\ [](\A id \in TxIds :
          /\ Count("confirmOpen", id) <= 1
          /\ Occurs("confirmOpen", id) =>
               /\ from[id] # NoSigner
               /\ ~Occurs("balanceEmpty", id)
               /\ rejection[id] \notin {ErrNoSigner, ErrBalance}
          /\ (Occurs("enqueue", id) \/ InSeq(queue, id) \/ InSeq(queuedOrder, id)) =>
               /\ 0 < Pos(log[id], "confirmOpen")
               /\ Pos(log[id], "confirmOpen") < Pos(log[id], "confirmResolved")
               /\ Pos(log[id], "confirmResolved") < Pos(log[id], "enqueue"))
  /\ [][\A id \in TxIds :
          (Len(log'[id]) > Len(log[id]) /\ "confirmOpen" \in
             {log'[id][i] : i \in (Len(log[id]) + 1)..Len(log'[id])}) =>
            /\ from[id] # NoSigner
            /\ loaded'[id] # NoBalance
            /\ ~lt(loaded'[id], MIN_BALANCE)]_vars

\* a transaction was queued after its confirmation window was opened and resolved
C3_Witness ==
  \E id \in TxIds :
    /\ InSeq(queue, id)
    /\ Count("confirmOpen", id) = 1
    /\ Occurs("confirmResolved", id)

untouched(id) == cancelEmits[id] = 0 /\ prioEmits[id] = 0

\* C5: the executor sends at most one transaction at a time, and transactions
\* that were neither cancelled nor prioritized are sent in the order in which
\* they were queued.
C5_SerialInOrder ==
  /\ Cardinality(sending) <= 1
  /\ \A a, b \in TxIds :
       (/\ InSeq(sentOrder, a) /\ InSeq(sentOrder, b)
        /\ untouched(a) /\ untouched(b)
        /\ Pos(queuedOrder, a) < Pos(queuedOrder, b))
       => Pos(sentOrder, a) < Pos(sentOrder, b)

\* two untouched transactions were both sent, the second having waited in the
\* queue while the first was being sent
C5_Witness ==
  /\ Len(sentOrder) = 2
  /\ \A id \in {sentOrder[1], sentOrder[2]} : untouched(id)
  /\ sending = {sentOrder[2]}
  /\ submitted[sentOrder[1]] # "pending"

C7_CancelledNeverSent ==
  /\ [][\A id \in TxIds :
          cancelEmits'[id] # cancelEmits[id] =>
            /\ cancelEmits' = [cancelEmits EXCEPT ![id] = @ + 1]
            /\ UNCHANGED <<log, prioEmits, sentOrder, sending>>
            /\ ~InSeq(queue', id)
            /\ queue' = Without(queue, id)]_vars
  /\ [](\A id \in cancelledWaiting :
          /\ cancelEmits[id] >= 1
          /\ ~InSeq(queue, id)
          /\ ~InSeq(sentOrder, id)
          /\ id \notin sending
          /\ \A i \in DOMAIN log[id] :
               log[id][i] \notin {"TxProcessing", "send", "TxSubmitted"})

\* a waiting transaction was cancelled, and the executor has since sent
\* another one and run dry
C7_Witness ==
  \E id \in cancelledWaiting :
    /\ Len(sentOrder) = 1
    /\ queue = <<>>
    /\ sending = {}
    /\ phase[id] = "listening"

\* C12: for every transaction the executor sends, TxProcessing is emitted
\* exactly once, just before the send, and the pre-send hook never keeps a
\* transaction from being sent: no TxProcessing without the send behind it.
C12_ProcessingOncePerSend ==
  \A id \in TxIds :
    /\ Count("TxProcessing", id) = Count("send", id)
    /\ Count("send", id) <= 1
    /\ InSeq(sentOrder, id) <=> Occurs("send", id)
    /\ Occurs("send", id) => Pos(log[id], "TxProcessing") + 1 = Pos(log[id], "send")

\* both transactions were sent
C12_Witness ==
  /\ Len(sentOrder) = MaxTx
  /\ \A id \in TxIds : Occurs("TxProcessing", id) /\ Occurs("send", id)

EmittedLater == {"TxSubmitted", "TxConfirmed", "TxErrored"}

\* C14: for every transaction submitTransaction returned, TxQueued was
\* emitted exactly once, and before any TxSubmitted, TxConfirmed or TxErrored
\* of that transaction, also when its promises settled before the handlers
\* were attached.
C14_QueuedFirst ==
  \A id \in TxIds :
    /\ Count("TxQueued", id) <= 1
    /\ known(id) => Count("TxQueued", id) = 1
    /\ \A i \in DOMAIN log[id] :
         log[id][i] \in EmittedLater =>
           /\ Occurs("TxQueued", id)
           /\ Pos(log[id], "TxQueued") < i

\* a transaction was sent, submitted and confirmed before TxQueued was
\* emitted for it; its notifications followed
C14_Witness ==
  \E id \in TxIds :
    /\ phase[id] = "listening"
    /\ Pos(log[id], "send") < Pos(log[id], "TxQueued")
    /\ Pos(log[id], "TxQueued") + 1 = Pos(log[id], "TxSubmitted")
    /\ Occurs("TxConfirmed", id)

\* C15: for a transaction whose submittedPromise and confirmedPromise both
\* resolved, TxSubmitted is emitted once, then TxConfirmed once, and TxErrored
\* never: at most once each at any time, and both once the handlers are
\* attached.
C15_SubmittedThenConfirmed ==
  \A id \in TxIds :
    (submitted[id] = "resolved" /\ confirmed[id] = "resolved") =>
      /\ Count("TxErrored", id) = 0
      /\ Count("TxSubmitted", id) <= 1
      /\ Count("TxConfirmed", id) <= 1
      /\ Occurs("TxConfirmed", id) <=> Occurs("TxSubmitted", id)
      /\ Occurs("TxConfirmed", id) =>
           Pos(log[id], "TxSubmitted") < Pos(log[id], "TxConfirmed")
      /\ phase[id] = "listening" => Occurs("TxSubmitted", id) /\ Occurs("TxConfirmed", id)

\* one transaction resolved both promises before its handlers were attached,
\* the other after
C15_Witness ==
  \E a, b \in TxIds :
    /\ a # b
    /\ Pos(log[a], "TxQueued") + 2 = Pos(log[a], "TxConfirmed")
    /\ Pos(log[a], "send") < Pos(log[a], "TxQueued")
    /\ Pos(log[b], "TxQueued") < Pos(log[b], "send")
    /\ Occurs("TxConfirmed", b)

\* C16: TxErrored is emitted at most once for a transaction, whatever
\* combination of its submittedPromise and confirmedPromise rejects.
C16_ErroredAtMostOnce ==
  \A id \in TxIds : Count("TxErrored", id) <= 1

(***************************************************************************)
(* ContractsAPI.getGasFeeForTransaction: the gas-fee policy.               *)
(***************************************************************************)
ContractAddrs == {"0xgame", "0xother"}
MethodNames == {"initializePlayer", "getSpaceShips", "move"}
GasSettings == {"1", "50", "Average"}
Accounts == {NoSigner, "0xplayer"}

NoTx == [methodName |-> "", contract |-> ""]
NoFee == ""

\* getSetting(config, Setting.GasFeeGwei) of Frontend/Utils/SettingsHooks: the
\* value stored for the configuration's contract address and account
getSetting(config) == settings[<<config.contractAddress, config.account>>]

\* this.contract.address: the address of the contract the connection loaded for
\* this.contractAddress
thisContract == [address |-> contractAddress]

\* faulty variant: the fixed fee is given whatever contract the call targets
getGasFeeIgnoringContract(tx) ==
  IF tx.methodName = "initializePlayer" \/ tx.methodName = "getSpaceShips"
  THEN "50"
  ELSE getSetting([contractAddress |-> contractAddress, account |-> account])

getGasFeeForTransaction(tx) ==
  IF /\ (tx.methodName = "initializePlayer" \/ tx.methodName = "getSpaceShips")
     /\ tx.contract = thisContract.address
  THEN "50"
  ELSE getSetting([contractAddress |-> contractAddress, account |-> account])

GasInit ==
  /\ contractAddress \in ContractAddrs
  /\ account \in Accounts
  /\ settings \in [ContractAddrs \X Accounts -> GasSettings]
  /\ gasTx = NoTx
  /\ gasFee = NoFee

GasParked ==
  /\ contractAddress = "0xgame"
  /\ account = NoSigner
  /\ settings = [k \in ContractAddrs \X Accounts |-> "1"]
  /\ gasTx = NoTx
  /\ gasFee = NoFee

\* the executor asks for the gas fee of a transaction
gasFeeCall(m, c) ==
  /\ gasTx' = [methodName |-> m, contract |-> c]
  /\ gasFee' = getGasFeeForTransaction(gasTx')
  /\ UNCHANGED <<contractAddress, account, settings>>

GasNext == \E m \in MethodNames, c \in ContractAddrs : gasFeeCall(m, c)

\* C4: the call returns the fixed fee '50' when the method is initializePlayer
\* or getSpaceShips and the target contract is this API's contract; in every
\* other case it returns the GasFeeGwei setting stored for (this API's contract
\* address, the account), unchanged.
C4_GasFeePolicy ==
  gasTx # NoTx =>
    LET fixed == /\ gasTx.methodName \in {"initializePlayer", "getSpaceShips"}
                 /\ gasTx.contract = contractAddress
        stored == settings[<<contractAddress, account>>]
    IN /\ fixed => gasFee = "50"
       /\ ~fixed => gasFee = stored
       /\ stored # "50" => (gasFee = "50" <=> fixed)

\* getSpaceShips on another contract got the stored setting, which differs from
\* the setting stored for that other contract and from the fixed fee
C4_Witness ==
  /\ gasTx.methodName = "getSpaceShips"
  /\ gasTx.contract # contractAddress
  /\ gasFee = "Average"
  /\ settings[<<gasTx.contract, account>>] = "1"

(***************************************************************************)
(* ContractsAPI.setupEventListeners: the handlers of the contract events.  *)
(* A raw address is a hex string that may hold capitals; big numbers are   *)
(* written as decimal strings.                                             *)
(***************************************************************************)
MaxDeliveries == 2

\* "0".repeat(n)
RECURSIVE Zeros(_)
Zeros(n) == IF n = 0 THEN <<>> ELSE <<"0">> \o Zeros(n - 1)

HexDigits == <<"0", "1", "2", "3", "4", "5", "6", "7", "8", "9",
               "a", "b", "c", "d", "e", "f">>

\* the raw addresses of the events: one in lower case, one with a capital
RawAddrs == {<<"0", "x">> \o Zeros(39) \o <<"a">>, <<"0", "x">> \o Zeros(39) \o <<"B">>}
NoAddr == <<>>
BNs == {1, 2}
NoBN == 0

lowerChar(c) ==
  CASE c = "A" -> "a" [] c = "B" -> "b" [] c = "C" -> "c"
    [] c = "D" -> "d" [] c = "E" -> "e" [] c = "F" -> "f"
    [] c = "X" -> "x" [] OTHER -> c

\* String.prototype.toLowerCase
toLowerCase(str) == [i \in DOMAIN str |-> lowerChar(str[i])]

\* address() of the serde package: lower case, an optional 0x taken off, 40
\* hex digits required, 0x put in front
withoutPrefix(str) ==
  IF Len(str) >= 2 /\ SubSeq(str, 1, 2) = <<"0", "x">> THEN SubSeq(str, 3, Len(str))
  ELSE str

validAddress(str) ==
  LET ret == withoutPrefix(toLowerCase(str))
  IN /\ Len(ret) = 40
     /\ \A i \in DOMAIN ret : \E d \in DOMAIN HexDigits : HexDigits[d] = ret[i]

address(str) == <<"0", "x">> \o withoutPrefix(toLowerCase(str))

\* BigNumber.toString(16)
RECURSIVE toHex(_)
toHex(n) == IF n < 16 THEN <<HexDigits[n + 1]>>
            ELSE toHex(n \div 16) \o <<HexDigits[(n % 16) + 1]>>

\* BigNumber.toString()
RECURSIVE toDec(_)
toDec(n) == IF n < 10 THEN <<HexDigits[n + 1]>>
            ELSE toDec(n \div 10) \o <<HexDigits[(n % 10) + 1]>>

\* locationIdFromEthersBN of the serde package: 64 hex digits
locationIdFromEthersBN(n) == Zeros(64 - Len(toHex(n))) \o toHex(n)

\* artifactIdFromEthersBN of the serde package: 64 hex digits
artifactIdFromEthersBN(n) == Zeros(64 - Len(toHex(n))) \o toHex(n)

\* a contract event as its handler receives it: the arguments the handler reads
Event(t, a1, a2, n1, n2, n3, p) ==
  [type |-> t, addr |-> a1, addr2 |-> a2, bn1 |-> n1, bn2 |-> n2, bn3 |-> n3,
   paused |-> p]

LocationEvents == {"AdminOwnershipChanged", "AdminGiveSpaceship", "PlanetUpgraded",
                   "PlanetInvaded", "PlanetCaptured", "PlanetHatBought"}

ArtifactEvents == {"ArtifactFound", "ArtifactDeposited", "ArtifactWithdrawn",
                   "ArtifactActivated", "ArtifactDeactivated"}

ContractEvents ==
  {Event("PauseStateChanged", NoAddr, NoAddr, NoBN, NoBN, NoBN, p) : p \in BOOLEAN}
  \cup {Event(t, NoAddr, NoAddr, l, NoBN, NoBN, FALSE) : t \in LocationEvents, l \in BNs}
  \cup {Event(t, NoAddr, NoAddr, l, r, NoBN, FALSE) : t \in ArtifactEvents, l \in BNs, r \in BNs}
  \cup {Event("PlayerInitialized", a, NoAddr, l, NoBN, NoBN, FALSE) : a \in RawAddrs, l \in BNs}
  \cup {Event("PlanetTransferred", NoAddr, a, l, NoBN, NoBN, FALSE) : a \in RawAddrs, l \in BNs}
  \cup {Event("ArrivalQueued", a, NoAddr, l, m, v, FALSE) :
          a \in RawAddrs, l \in BNs, m \in BNs, v \in BNs}
  \cup {Event("LocationRevealed", a, NoAddr, l, NoBN, NoBN, FALSE) : a \in RawAddrs, l \in BNs}
  \cup {Event("PlanetSilverWithdrawn", a, NoAddr, l, NoBN, NoBN, FALSE) :
          a \in RawAddrs, l \in BNs}
  \cup {Event("LobbyCreated", a, b, NoBN, NoBN, NoBN, FALSE) : a \in RawAddrs, b \in RawAddrs}

\* this.emit(name, ...args)
Emit(name, args) == [name |-> name, args |-> args]

\* a LocationRevealed handler that announces the player before the planet
onLocationRevealedPlayerFirst(e) ==
  <<Emit("PlayerUpdate", <<address(e.addr)>>),
    Emit("LocationRevealed",
         <<locationIdFromEthersBN(e.bn1), address(toLowerCase(e.addr))>>),
    Emit("PlanetUpdate", <<locationIdFromEthersBN(e.bn1)>>)>>

\* the handler of [ContractEvent.LocationRevealed]
onLocationRevealed(e) ==
  <<Emit("PlanetUpdate", <<locationIdFromEthersBN(e.bn1)>>),
    Emit("LocationRevealed",
         <<locationIdFromEthersBN(e.bn1), address(toLowerCase(e.addr))>>),
    Emit("PlayerUpdate", <<address(e.addr)>>)>>

\* the handlers, by event: addr is the player, revealer or owner address, addr2
\* the receiver or lobby address, bn1 the location (the source location of an
\* arrival), bn2 the raw artifact id (the target location of an arrival), bn3
\* the arrival id
eventHandlers(e) ==
  CASE e.type = "PauseStateChanged" ->
         <<Emit("PauseStateChanged", <<e.paused>>)>>
    [] e.type \in {"AdminOwnershipChanged", "AdminGiveSpaceship"} ->
         <<Emit("PlanetUpdate", <<locationIdFromEthersBN(e.bn1)>>)>>
    [] e.type \in ArtifactEvents ->
         <<Emit("ArtifactUpdate", <<artifactIdFromEthersBN(e.bn2)>>),
           Emit("PlanetUpdate", <<locationIdFromEthersBN(e.bn1)>>)>>
    [] e.type = "PlayerInitialized" ->
         <<Emit("PlayerUpdate", <<address(e.addr)>>),
           Emit("PlanetUpdate", <<locationIdFromEthersBN(e.bn1)>>),
           Emit("RadiusUpdated", <<>>)>>
    [] e.type = "PlanetTransferred" ->
         <<Emit("PlanetTransferred",
                <<locationIdFromEthersBN(e.bn1), address(e.addr2)>>)>>
    [] e.type = "ArrivalQueued" ->
         <<Emit("ArrivalQueued", <<toDec(e.bn3), locationIdFromEthersBN(e.bn1),
                                   locationIdFromEthersBN(e.bn2)>>),
           Emit("PlayerUpdate", <<address(e.addr)>>),
           Emit("RadiusUpdated", <<>>)>>
    [] e.type \in {"PlanetUpgraded", "PlanetInvaded", "PlanetCaptured",
                   "PlanetHatBought"} ->
         <<Emit("PlanetUpdate", <<locationIdFromEthersBN(e.bn1)>>)>>
    [] e.type = "LocationRevealed" -> onLocationRevealed(e)
    [] e.type = "PlanetSilverWithdrawn" ->
         <<Emit("PlanetUpdate", <<locationIdFromEthersBN(e.bn1)>>),
           Emit("PlayerUpdate", <<address(e.addr)>>)>>
    [] e.type = "LobbyCreated" ->
         <<Emit("LobbyCreated", <<address(e.addr), address(e.addr2)>>)>>

EventInit ==
  /\ delivered = <<>>
  /\ notifications = <<>>

\* the connection hands a contract event to its handler
deliver(e) ==
  /\ Len(delivered) < MaxDeliveries
  /\ delivered' = Append(delivered, e)
  /\ notifications' = Append(notifications, eventHandlers(e))

EventNext == \E e \in ContractEvents : deliver(e)

\* the names of a sequence of notifications
Names(ns) == [i \in DOMAIN ns |-> ns[i].name]

\* C8: every delivered event is rebroadcast as its fixed sequence of
\* notifications and nothing else: the five artifact events as
\* ArtifactUpdate(artifact), PlanetUpdate(location); PlayerInitialized as
\* PlayerUpdate, PlanetUpdate, RadiusUpdated; ArrivalQueued as ArrivalQueued,
\* PlayerUpdate, RadiusUpdated; LocationRevealed as PlanetUpdate,
\* LocationRevealed, PlayerUpdate; PlanetSilverWithdrawn as PlanetUpdate,
\* PlayerUpdate; every other handled event as exactly one notification.
C8_EventFanOut ==
  /\ Len(notifications) = Len(delivered)
  /\ \A i \in DOMAIN delivered :
       LET e == delivered[i]
           ns == notifications[i]
       IN CASE e.type \in {"ArtifactFound", "ArtifactDeposited", "ArtifactWithdrawn",
                           "ArtifactActivated", "ArtifactDeactivated"} ->
                 /\ Names(ns) = <<"ArtifactUpdate", "PlanetUpdate">>
                 /\ ns[1].args = <<Zeros(63) \o <<HexDigits[e.bn2 + 1]>>>>
                 /\ ns[2].args = <<Zeros(63) \o <<HexDigits[e.bn1 + 1]>>>>
            [] e.type = "PlayerInitialized" ->
                 Names(ns) = <<"PlayerUpdate", "PlanetUpdate", "RadiusUpdated">>
            [] e.type = "ArrivalQueued" ->
                 Names(ns) = <<"ArrivalQueued", "PlayerUpdate", "RadiusUpdated">>
            [] e.type = "LocationRevealed" ->
                 Names(ns) = <<"PlanetUpdate", "LocationRevealed", "PlayerUpdate">>
            [] e.type = "PlanetSilverWithdrawn" ->
                 Names(ns) = <<"PlanetUpdate", "PlayerUpdate">>
            [] OTHER -> Len(ns) = 1

\* a LocationRevealed event of a mixed-case revealer and then an ArtifactFound
\* event were delivered and rebroadcast
C8_Witness ==
  /\ Len(delivered) = 2
  /\ delivered[1].type = "LocationRevealed"
  /\ delivered[1].addr # toLowerCase(delivered[1].addr)
  /\ delivered[2].type = "ArtifactFound"
  /\ Len(notifications) = 2
  /\ Len(notifications[1]) = 3
  /\ notifications[2][1].args # notifications[2][2].args

(***************************************************************************)
(* Bulk reads: the getters of ContractsAPI that page through the contract  *)
(* with aggregateBulkGetter.  An item is named by its index in the         *)
(* contract's array, or by the id it was asked for.                        *)
(***************************************************************************)
MaxPages == 2
MaxStartingAt == 1

Min(a, b) == IF a < b THEN a ELSE b

\* aggregateBulkGetter(total, querySize, getterFn): the number of pages
NumPages(total, size) == IF total <= 0 THEN 0 ELSE (total + size - 1) \div size

\* aggregateBulkGetter: the (start, end) window of a page, pages counted from 0
Window(page, total, size) ==
  [start |-> page * size, end |-> Min((page + 1) * size, total)]

\* aggregateBulkGetter: the pages' results flattened in page order
RECURSIVE Flatten(_, _)
Flatten(items, k) == IF k = 0 THEN <<>> ELSE Flatten(items, k - 1) \o items[k]

\* Array.prototype.slice(start, end)
slice(arr, start, end) == SubSeq(arr, start + 1, Min(end, Len(arr)))

\* the contract's array of n items
contractArray(n) == [i \in 1..n |-> i - 1]

BulkMethods == {"getPlayers", "getAllArrivals", "getTouchedPlanetIds",
                "getRevealedPlanetsCoords", "bulkGetPlanets",
                "bulkGetArtifactsOnPlanets", "bulkGetArtifacts"}

\* the contract views a getter pages through, in the order it reads them
callSites(m) ==
  CASE m = "getPlayers" -> <<"bulkGetPlayers">>
    [] m = "getAllArrivals" -> <<"bulkGetPlanetArrivalsByIds">>
    [] m = "getTouchedPlanetIds" -> <<"bulkGetPlanetIds">>
    [] m = "getRevealedPlanetsCoords" ->
         <<"bulkGetRevealedPlanetIds", "bulkGetRevealedCoordsByIds">>
    [] m = "bulkGetPlanets" ->
         <<"bulkGetPlanetsByIds", "bulkGetPlanetsExtendedInfoByIds",
           "bulkGetPlanetsExtendedInfo2ByIds">>
    [] m = "bulkGetArtifactsOnPlanets" -> <<"bulkGetPlanetArtifacts">>
    [] m = "bulkGetArtifacts" -> <<"bulkGetArtifactsByIds">>

\* one page size for every getter
querySizeThousand(fn) == 1000

\* the querySize argument each call site passes to aggregateBulkGetter
querySize(fn) ==
  CASE fn = "bulkGetPlanetIds" -> 1000
    [] fn \in {"bulkGetRevealedPlanetIds", "bulkGetRevealedCoordsByIds"} -> 500
    [] OTHER -> 200

\* the views called with (start, end); the others are called with a slice of ids
byRange(fn) == fn \in {"bulkGetPlayers", "bulkGetPlanetIds", "bulkGetRevealedPlanetIds"}

\* the getters that take the array to load as an argument
takesList(m) == m \in {"getAllArrivals", "bulkGetPlanets", "bulkGetArtifactsOnPlanets",
                       "bulkGetArtifacts"}

hasStartingAt(m) == m \in {"getTouchedPlanetIds", "getRevealedPlanetsCoords"}

\* the total a call site passes to aggregateBulkGetter
totalOf(fn, n, s, lst) == IF byRange(fn) THEN n - s ELSE Len(lst)

\* faulty variant: the window is sent to the contract as it is
getterFnNoOffset(fn, w, s, lst) ==
  IF byRange(fn) THEN <<w.start, w.end>> ELSE slice(lst, w.start, w.end)

\* the getterFn of a call site: what it sends to the contract for a window
getterFn(fn, w, s, lst) ==
  IF byRange(fn) THEN <<w.start + s, w.end + s>> ELSE slice(lst, w.start, w.end)

\* the contract's answer: the items of the range, or one item per id
makeCall(fn, sent, n) ==
  IF byRange(fn) THEN SubSeq(contractArray(n), sent[1] + 1, sent[2]) ELSE sent

\* aggregateBulkGetter starts: getterFn is invoked once per page
pagesOf(fn, n, s, lst) ==
  LET total == totalOf(fn, n, s, lst)
  IN [p \in 1..NumPages(total, querySize(fn)) |->
        LET w == Window(p - 1, total, querySize(fn))
        IN [fn |-> fn, start |-> w.start, end |-> w.end,
            sent |-> getterFn(fn, w, s, lst)]]

\* the totals worth reading with a page size: none, one, and around each
\* multiple of the page size
Totals(size) ==
  {k * size + d : k \in 0..(MaxPages - 1), d \in {0, 1, size - 1}} \cup {MaxPages * size}

BulkInit ==
  /\ bulkPc = "idle"
  /\ method = "none"
  /\ stage = 0
  /\ startingAt = 0
  /\ nItems = 0
  /\ list = <<>>
  /\ calls = <<>>
  /\ pageItems = <<>>
  /\ bulkResult = <<>>

\* a getter is called: it reads the count (or takes the array) and starts its
\* first bulk read
bulkCall(m, total, s) ==
  LET fn == callSites(m)[1]
      n == total + s
      lst == IF takesList(m) THEN contractArray(n) ELSE <<>>
  IN /\ bulkPc = "idle"
     /\ ~hasStartingAt(m) => s = 0
     /\ n >= 0
     /\ bulkPc' = "paging"
     /\ method' = m
     /\ stage' = 1
     /\ startingAt' = s
     /\ nItems' = n
     /\ list' = lst
     /\ calls' = pagesOf(fn, n, s, lst)
     /\ pageItems' = <<>>
     /\ bulkResult' = <<>>

\* the contract call of one page returns, in any order
getterReturns(p) ==
  /\ bulkPc = "paging"
  /\ p \in DOMAIN calls
  /\ p \notin DOMAIN pageItems
  /\ pageItems' = [q \in DOMAIN pageItems \cup {p} |->
                     IF q = p THEN makeCall(calls[p].fn, calls[p].sent, nItems)
                     ELSE pageItems[q]]
  /\ UNCHANGED <<bulkPc, method, stage, startingAt, nItems, list, calls, bulkResult>>

\* every page has returned: aggregateBulkGetter resolves
aggregateBulkGetter ==
  /\ bulkPc = "paging"
  /\ DOMAIN pageItems = DOMAIN calls
  /\ bulkResult' = Flatten(pageItems, Len(calls))
  /\ bulkPc' = "aggregated"
  /\ UNCHANGED <<method, stage, startingAt, nItems, list, calls, pageItems>>

\* the getter goes on to its next bulk read: getRevealedPlanetsCoords reads
\* the coords of the ids it has just read, bulkGetPlanets reads its array again
nextBulkRead ==
  LET fn == callSites(method)[stage + 1]
      lst == IF takesList(method) THEN list ELSE bulkResult
  IN /\ bulkPc = "aggregated"
     /\ stage < Len(callSites(method))
     /\ stage' = stage + 1
     /\ list' = lst
     /\ calls' = pagesOf(fn, nItems, startingAt, lst)
     /\ pageItems' = <<>>
     /\ bulkResult' = <<>>
     /\ bulkPc' = "paging"
     /\ UNCHANGED <<method, startingAt, nItems>>

\* the getter returns after its last bulk read
bulkReturn ==
  /\ bulkPc = "aggregated"
  /\ stage = Len(callSites(method))
  /\ bulkPc' = "done"
  /\ UNCHANGED <<method, stage, startingAt, nItems, list, calls, pageItems, bulkResult>>

BulkNext ==
  \/ \E m \in BulkMethods : \E t \in Totals(querySize(callSites(m)[1])) \cup {-1} :
       \E s \in 0..MaxStartingAt : bulkCall(m, t, s)
  \/ \E p \in 1..MaxPages : getterReturns(p)
  \/ aggregateBulkGetter
  \/ nextBulkRead
  \/ bulkReturn

\* C9: every bulk read is split into windows of which none makes a contract
\* call cover more than the getter's page size (200 for players, arrivals,
\* planets, planet artifacts and artifacts, 500 for revealed planet ids and
\* coords, 1000 for touched planet ids); the windows cover each index of
\* [0, total) exactly once, and the aggregated result holds the items of all
\* windows in index order.
C9_BulkWindows ==
  bulkPc # "idle" =>
    LET fn == callSites(method)[stage]
        pageSize == IF method = "getTouchedPlanetIds" THEN 1000
                    ELSE IF method = "getRevealedPlanetsCoords" THEN 500
                    ELSE 200
        total == IF byRange(fn) THEN nItems - startingAt ELSE Len(list)
        covered(c) == IF byRange(fn) THEN c.sent[2] - c.sent[1] ELSE Len(c.sent)
        wanted == IF byRange(fn) THEN SubSeq(contractArray(nItems), startingAt + 1, nItems)
                  ELSE list
    IN /\ \A p \in DOMAIN calls :
            /\ calls[p].start < calls[p].end
            /\ calls[p].end - calls[p].start <= pageSize
            /\ covered(calls[p]) = calls[p].end - calls[p].start
            /\ calls[p].start = IF p = 1 THEN 0 ELSE calls[p - 1].end
       /\ total > 0 => Len(calls) > 0 /\ calls[Len(calls)].end = total
       /\ total = 0 => calls = <<>>
       /\ bulkPc \in {"aggregated", "done"} => bulkResult = wanted

\* getTouchedPlanetIds(1) has read 1001 planet ids in two windows
C9_Witness ==
  /\ bulkPc = "aggregated"
  /\ method = "getTouchedPlanetIds"
  /\ startingAt = 1
  /\ Len(calls) = 2
  /\ calls[2].sent[2] - calls[2].sent[1] = 1
  /\ Len(bulkResult) = 1001

\* the contract indices a call by range asks for
requested(c) == c.sent[1]..(c.sent[2] - 1)

RECURSIVE sentIds(_, _)
sentIds(cs, k) == IF k = 0 THEN <<>> ELSE sentIds(cs, k - 1) \o cs[k].sent

\* C19: getTouchedPlanetIds(startingAt) and getRevealedPlanetsCoords(startingAt)
\* request exactly the contract indices in [startingAt, n), n being the count
\* read at the start of the call: none below startingAt, none at or above n,
\* none twice (and the coords of exactly those ids, once each); with
\* startingAt >= n they make no bulk call and return an empty list.
C19_StartingAtWindows ==
  (bulkPc # "idle" /\ hasStartingAt(method)) =>
    LET fn == callSites(method)[stage]
        wanted == SubSeq(contractArray(nItems), startingAt + 1, nItems)
    IN /\ byRange(fn) =>
            /\ \A p \in DOMAIN calls : requested(calls[p]) \subseteq startingAt..(nItems - 1)
            /\ \A p, q \in DOMAIN calls :
                 p # q => requested(calls[p]) \cap requested(calls[q]) = {}
            /\ UNION {requested(calls[p]) : p \in DOMAIN calls} = startingAt..(nItems - 1)
       /\ ~byRange(fn) => sentIds(calls, Len(calls)) = wanted
       /\ startingAt >= nItems => calls = <<>>
       /\ bulkPc \in {"aggregated", "done"} =>
            /\ bulkResult = wanted
            /\ startingAt >= nItems => bulkResult = <<>>

\* getRevealedPlanetsCoords(1) has read the coords of the 501 revealed planets
\* from index 1 on, in two windows, after reading their ids
C19_Witness ==
  /\ bulkPc = "aggregated"
  /\ method = "getRevealedPlanetsCoords"
  /\ stage = 2
  /\ startingAt = 1
  /\ nItems = 502
  /\ Len(calls) = 2
  /\ Len(bulkResult) = 501

(***************************************************************************)
(* The lobby store: a list of lobbies kept in memory and in local storage. *)
(* Strings are sequences of characters, so that serializing and parsing    *)
(* are the conversions the code performs.                                  *)
(***************************************************************************)
MaxAddLobby == 2

LOBBY_LOCAL_STORAGE_KEY == "KNOWN_LOBBIES"

StorageKeys == {LOBBY_LOCAL_STORAGE_KEY, "OTHER_KEY"}

\* localStorage.getItem of a key that was never set
null == [set |-> FALSE, value |-> <<>>]

getItem(store, key) == store[key]

setItem(store, key, text) == [store EXCEPT ![key] = [set |-> TRUE, value |-> text]]

KeyAddress == <<"a", "d", "d", "r", "e", "s", "s">>
KeyName == <<"n", "a", "m", "e">>

\* JSON's escaping of a character inside a string
escapeChar(c) ==
  CASE c = "\"" -> <<"\\", "\"">>
    [] c = "\\" -> <<"\\", "\\">>
    [] c = "\n" -> <<"\\", "n">>
    [] OTHER -> <<c>>

RECURSIVE escape(_)
escape(str) == IF str = <<>> THEN <<>> ELSE escapeChar(Head(str)) \o escape(Tail(str))

quoted(str) == <<"\"">> \o escape(str) \o <<"\"">>

\* json-stable-stringify of a lobby: the keys in sorted order
stringifyLobby(l) ==
  <<"{">> \o quoted(KeyAddress) \o <<":">> \o quoted(l.address) \o <<",">>
    \o quoted(KeyName) \o <<":">> \o quoted(l.name) \o <<"}">>

RECURSIVE stringifyElements(_, _)
stringifyElements(ls, k) ==
  IF k = 0 THEN <<>>
  ELSE IF k = 1 THEN stringifyLobby(ls[1])
  ELSE stringifyElements(ls, k - 1) \o <<",">> \o stringifyLobby(ls[k])

\* json-stable-stringify of the list of lobbies
stringify(ls) == <<"[">> \o stringifyElements(ls, Len(ls)) \o <<"]">>

unescapeChar(c) == IF c = "n" THEN "\n" ELSE c

\* JSON.parse: a string, read from the character after its opening quote
RECURSIVE readString(_, _, _)
readString(t, i, acc) ==
  IF t[i] = "\"" THEN [value |-> acc, next |-> i + 1]
  ELSE IF t[i] = "\\" THEN readString(t, i + 2, Append(acc, unescapeChar(t[i + 1])))
  ELSE readString(t, i + 1, Append(acc, t[i]))

\* JSON.parse: the members of an object, read from the quote of a key
RECURSIVE readMembers(_, _, _)
readMembers(t, i, acc) ==
  LET k == readString(t, i + 1, <<>>)
      v == readString(t, k.next + 2, <<>>)
      members == Append(acc, <<k.value, v.value>>)
  IN IF t[v.next] = "," THEN readMembers(t, v.next + 1, members)
     ELSE [value |-> members, next |-> v.next + 1]

member(members, key) ==
  members[CHOOSE j \in DOMAIN members : members[j][1] = key][2]

\* JSON.parse: an object, read from its opening brace, as a Lobby
readObject(t, i) ==
  LET m == readMembers(t, i + 1, <<>>)
  IN [value |-> [address |-> member(m.value, KeyAddress),
                 name |-> member(m.value, KeyName)],
      next |-> m.next]

\* JSON.parse: the elements of an array, read from the brace of an element
RECURSIVE readElements(_, _, _)
readElements(t, i, acc) ==
  LET o == readObject(t, i)
  IN IF t[o.next] = "," THEN readElements(t, o.next + 1, Append(acc, o.value))
     ELSE Append(acc, o.value)

\* JSON.parse of a serialized list of lobbies
JSONparse(t) == IF t[2] = "]" THEN <<>> ELSE readElements(t, 2, <<>>)

\* save(): store all of the lobbies
save(store, ls) == setItem(store, LOBBY_LOCAL_STORAGE_KEY, stringify(ls))

\* load(): the lobbies in local storage, none if the key is not set
load(store) ==
  LET serializedLobbies == getItem(store, LOBBY_LOCAL_STORAGE_KEY)
  IN IF serializedLobbies # null THEN JSONparse(serializedLobbies.value) ELSE <<>>

getLobbies == lobbies

LobbyAccounts == RawAddrs

LobbyNames == {<<>>, <<"a">>, <<"\"">>, <<"\\">>, <<",", "}">>, <<"\n", "n">>}

Lobby(acct, name) == [address |-> address(acct), name |-> name]

\* what an earlier session of the client can have left under the key
StoredBefore ==
  {null} \cup {[set |-> TRUE, value |-> stringify(<<>>)]}
         \cup {[set |-> TRUE, value |-> stringify(<<Lobby(a, <<"\"", "b">>)>>)] :
                 a \in LobbyAccounts}

\* the module is loaded: const lobbies = load()
LobbyInit ==
  /\ \E item \in StoredBefore :
       localStorage = [k \in StorageKeys |->
                         IF k = LOBBY_LOCAL_STORAGE_KEY THEN item ELSE null]
  /\ lobbies = load(localStorage)
  /\ added = 0

LobbyParked ==
  /\ localStorage = [k \in StorageKeys |-> null]
  /\ lobbies = <<>>
  /\ added = 0

\* addLobby that stores the list before the new lobby is in it
addLobbySaveFirst(acct, name) ==
  /\ added < MaxAddLobby
  /\ validAddress(acct)
  /\ localStorage' = save(localStorage, lobbies)
  /\ lobbies' = Append(lobbies, Lobby(acct, name))
  /\ added' = added + 1

\* addLobby(account, name): push the lobby, then save()
addLobby(acct, name) ==
  /\ added < MaxAddLobby
  /\ validAddress(acct)
  /\ lobbies' = Append(lobbies, Lobby(acct, name))
  /\ localStorage' = save(localStorage, lobbies')
  /\ added' = added + 1

LobbyNext == \E acct \in LobbyAccounts : \E name \in LobbyNames : addLobby(acct, name)

\* C10: after any sequence of addLobby calls the value stored under
\* KNOWN_LOBBIES is the serialization of the whole in-memory list, and
\* loading it back yields the same lobbies, address and name, in the same
\* insertion order.
C10_LobbiesRoundTrip ==
  added > 0 =>
    /\ localStorage["KNOWN_LOBBIES"] = [set |-> TRUE, value |-> stringify(lobbies)]
    /\ load(localStorage) = lobbies

\* two lobbies were added to a stored one, the last with a name that needs
\* escaping, for an account written with a capital
C10_Witness ==
  /\ added = 2
  /\ Len(lobbies) = 3
  /\ lobbies[3].name = <<"\\">>
  /\ lobbies[2].name = <<",", "}">>
  /\ lobbies[3].address = <<"0", "x">> \o Zeros(39) \o <<"b">>

(***************************************************************************)
(* lobbyAddressMnemonic: an address as a bip39 mnemonic and back.  A       *)
(* mnemonic is the sequence of its words, and a word is written as its     *)
(* index in the bip39 wordlist.                                            *)
(***************************************************************************)

\* String.prototype.startsWith('0x')
startsWith0x(str) == Len(str) >= 2 /\ SubSeq(str, 1, 2) = <<"0", "x">>

\* the value of a hex digit, capital or not
hexValue(ch) == (CHOOSE d \in DOMAIN HexDigits : HexDigits[d] = lowerChar(ch)) - 1

\* Buffer.from(hex, 'hex')
bufferFromHex(hex) ==
  [i \in 1..(Len(hex) \div 2) |-> 16 * hexValue(hex[2 * i - 1]) + hexValue(hex[2 * i])]

\* Buffer.toString('hex'): two lower-case digits a byte
RECURSIVE bufferToHex(_)
bufferToHex(bytes) ==
  IF bytes = <<>> THEN <<>>
  ELSE <<HexDigits[(Head(bytes) \div 16) + 1], HexDigits[(Head(bytes) % 16) + 1]>>
         \o bufferToHex(Tail(bytes))

\* a number as n binary digits, the highest first
toBinary(v, n) == [i \in 1..n |-> (v \div (2 ^ (n - i))) % 2]

RECURSIVE binaryToByte(_)
binaryToByte(bits) ==
  IF bits = <<>> THEN 0 ELSE 2 * binaryToByte(SubSeq(bits, 1, Len(bits) - 1)) + bits[Len(bits)]

RECURSIVE bytesToBinary(_)
bytesToBinary(bytes) ==
  IF bytes = <<>> THEN <<>> ELSE toBinary(Head(bytes), 8) \o bytesToBinary(Tail(bytes))

\* the first byte of the digest of the entropy: a stand-in for SHA-256 that
\* depends on every byte and its place
RECURSIVE digestByte(_)
digestByte(bytes) ==
  IF bytes = <<>> THEN 7
  ELSE (31 * digestByte(SubSeq(bytes, 1, Len(bytes) - 1)) + bytes[Len(bytes)] + Len(bytes)) % 256

\* bip39 deriveChecksumBits: the first ENT / 32 digits of the digest
deriveChecksumBits(bytes) == SubSeq(toBinary(digestByte(bytes), 8), 1, (Len(bytes) * 8) \div 32)

\* the bip39 wordlist: 2048 words
wordlist == [i \in 0..2047 |-> ToString(i)]

\* bip39 entropyToMnemonic accepts 16 to 32 bytes, a multiple of 4
validEntropy(hex) ==
  LET n == Len(hex) \div 2
  IN /\ \A i \in DOMAIN hex : \E d \in DOMAIN HexDigits : HexDigits[d] = lowerChar(hex[i])
     /\ Len(hex) % 2 = 0
     /\ n >= 16 /\ n <= 32 /\ n % 4 = 0

\* bip39 entropyToMnemonic: entropy and checksum digits, eleven to a word
entropyToMnemonic(hex) ==
  LET bytes == bufferFromHex(hex)
      bits == bytesToBinary(bytes) \o deriveChecksumBits(bytes)
  IN [w \in 1..(Len(bits) \div 11) |->
        wordlist[binaryToByte(SubSeq(bits, 11 * (w - 1) + 1, 11 * w))]]

wordIndex(word) == CHOOSE i \in DOMAIN wordlist : wordlist[i] = word

RECURSIVE wordsToBinary(_)
wordsToBinary(words) ==
  IF words = <<>> THEN <<>> ELSE toBinary(wordIndex(Head(words)), 11) \o wordsToBinary(Tail(words))

\* the entropy bytes a mnemonic spells
mnemonicBytes(words) ==
  LET bits == wordsToBinary(words)
      dividerIndex == (Len(bits) \div 33) * 32
  IN [b \in 1..(dividerIndex \div 8) |-> binaryToByte(SubSeq(bits, 8 * (b - 1) + 1, 8 * b))]

\* bip39 mnemonicToEntropy accepts known words, three to a group, whose
\* checksum digits match
validMnemonic(words) ==
  /\ Len(words) % 3 = 0
  /\ \A w \in DOMAIN words : \E i \in DOMAIN wordlist : wordlist[i] = words[w]
  /\ LET bits == wordsToBinary(words)
         dividerIndex == (Len(bits) \div 33) * 32
         bytes == mnemonicBytes(words)
     IN /\ Len(bytes) >= 16 /\ Len(bytes) <= 32 /\ Len(bytes) % 4 = 0
        /\ SubSeq(bits, dividerIndex + 1, Len(bits)) = deriveChecksumBits(bytes)

\* bip39 mnemonicToEntropy: the entropy in lower-case hex
mnemonicToEntropy(words) == bufferToHex(mnemonicBytes(words))

\* lobbyAddressMnemonic that returns the entropy as it is
lobbyAddressMnemonicNoPrefix(lobbyNameOrAddress) ==
  IF startsWith0x(lobbyNameOrAddress)
  THEN [address |-> lobbyNameOrAddress,
        mnemonic |-> entropyToMnemonic(SubSeq(lobbyNameOrAddress, 3, Len(lobbyNameOrAddress)))]
  ELSE [address |-> mnemonicToEntropy(lobbyNameOrAddress),
        mnemonic |-> lobbyNameOrAddress]

\* lobbyAddressMnemonic(lobbyNameOrAddress)
lobbyAddressMnemonic(lobbyNameOrAddress) ==
  LET found ==
        IF startsWith0x(lobbyNameOrAddress)
        THEN [address |-> lobbyNameOrAddress,
              mnemonic |-> entropyToMnemonic(SubSeq(lobbyNameOrAddress, 3,
                                                    Len(lobbyNameOrAddress)))]
        ELSE [address |-> mnemonicToEntropy(lobbyNameOrAddress),
              mnemonic |-> lobbyNameOrAddress]
  IN IF ~startsWith0x(found.address)
     THEN [found EXCEPT !.address = <<"0", "x">> \o found.address]
     ELSE found

\* lobbyAddressMnemonic returns rather than throws
accepts(lobbyNameOrAddress) ==
  IF startsWith0x(lobbyNameOrAddress)
  THEN validEntropy(SubSeq(lobbyNameOrAddress, 3, Len(lobbyNameOrAddress)))
  ELSE validMnemonic(lobbyNameOrAddress)

\* the digits the addresses tried end in: low, high, and a capital
EndDigits == {"0", "7", "a", "f", "C"}

LobbyAddresses ==
  {<<"0", "x">> \o Zeros(37) \o <<c1, c2, c3>> : c1 \in EndDigits, c2 \in EndDigits,
                                                c3 \in EndDigits}

NoResult == [address |-> <<>>, mnemonic |-> <<>>]

MnemonicInit ==
  /\ mnemonicPc = "idle"
  /\ lobbyInput = <<>>
  /\ encoded = NoResult
  /\ decoded = NoResult

\* lobbyAddressMnemonic is called with an address
encodeLobby(a) ==
  /\ mnemonicPc = "idle"
  /\ accepts(a)
  /\ lobbyInput' = a
  /\ encoded' = lobbyAddressMnemonic(a)
  /\ mnemonicPc' = "encoded"
  /\ UNCHANGED decoded

\* lobbyAddressMnemonic is called with the mnemonic it returned
decodeLobby ==
  /\ mnemonicPc = "encoded"
  /\ accepts(encoded.mnemonic)
  /\ decoded' = lobbyAddressMnemonic(encoded.mnemonic)
  /\ mnemonicPc' = "decoded"
  /\ UNCHANGED <<lobbyInput, encoded>>

MnemonicNext ==
  \/ \E a \in LobbyAddresses : encodeLobby(a)
  \/ decodeLobby

\* C11 as stated: the mnemonic returned for a valid 0x-prefixed address a,
\* fed back, returns the address a and the same mnemonic, and every address
\* returned starts with 0x.
C11_RoundTripExact ==
  /\ mnemonicPc # "idle" => startsWith0x(encoded.address)
  /\ mnemonicPc = "decoded" =>
       /\ decoded.address = lobbyInput
       /\ decoded.mnemonic = encoded.mnemonic
       /\ startsWith0x(decoded.address)

\* C11: the mnemonic returned for a valid 0x-prefixed address a, fed back,
\* returns a in lower case (a itself when a holds no capital digit) and the
\* same mnemonic; the mnemonic is accepted, and every address returned starts
\* with 0x.
C11_RoundTripLowerCase ==
  /\ mnemonicPc # "idle" =>
       /\ startsWith0x(encoded.address)
       /\ encoded.address = lobbyInput
       /\ accepts(encoded.mnemonic)
  /\ mnemonicPc = "decoded" =>
       /\ decoded.address = toLowerCase(lobbyInput)
       /\ decoded.mnemonic = encoded.mnemonic
       /\ startsWith0x(decoded.address)

\* an address with a capital digit went to a mnemonic of 15 words and back
C11_Witness ==
  /\ mnemonicPc = "decoded"
  /\ lobbyInput # toLowerCase(lobbyInput)
  /\ Len(encoded.mnemonic) = 15
  /\ Len(decoded.address) = 42

(***************************************************************************)
(* ContractsAPI.getConstants: the constants of the game, read from the     *)
(* contract.  A record of the contract is a function from field names; a   *)
(* big number is a record around its value.                                *)
(***************************************************************************)
MaxPercent == 3

EthersBN(n) == [bn |-> n]

\* BigNumber.toNumber
toNumber(x) == x.bn

\* the fields of getSnarkConstants: big numbers and flags
SnarkNumbers == <<"PLANETHASH_KEY", "SPACETYPE_KEY", "BIOMEBASE_KEY", "PERLIN_LENGTH_SCALE">>
SnarkFlags == <<"DISABLE_ZK_CHECKS", "PERLIN_MIRROR_X", "PERLIN_MIRROR_Y">>

\* the fields getConstants takes from getGameConstants: big numbers, flags
\* and arrays of ten big numbers
GameNumbers ==
  <<"WORLD_RADIUS_MIN", "MAX_NATURAL_PLANET_LEVEL", "TIME_FACTOR_HUNDREDTHS",
    "PERLIN_THRESHOLD_1", "PERLIN_THRESHOLD_2", "PERLIN_THRESHOLD_3",
    "INIT_PERLIN_MIN", "INIT_PERLIN_MAX", "SPAWN_RIM_AREA", "BIOME_THRESHOLD_1",
    "BIOME_THRESHOLD_2", "SILVER_SCORE_VALUE", "PLANET_RARITY",
    "PHOTOID_ACTIVATION_DELAY", "LOCATION_REVEAL_COOLDOWN", "SPACE_JUNK_LIMIT",
    "ABANDON_SPEED_CHANGE_PERCENT", "ABANDON_RANGE_CHANGE_PERCENT",
    "GAME_START_BLOCK", "CAPTURE_ZONE_COUNT", "CAPTURE_ZONE_CHANGE_BLOCK_INTERVAL",
    "CAPTURE_ZONE_RADIUS", "CAPTURE_ZONE_HOLD_BLOCKS_REQUIRED",
    "CAPTURE_ZONES_PER_5000_WORLD_RADIUS">>
GameFlags == <<"ADMIN_CAN_ADD_PLANETS", "WORLD_RADIUS_LOCKED", "PLANET_TRANSFER_ENABLED",
               "SPACE_JUNK_ENABLED", "CAPTURE_ZONES_ENABLED">>
GameArrays == <<"PLANET_LEVEL_JUNK", "CAPTURE_ZONE_PLANET_LEVEL_SCORE">>

Range(seq) == {seq[i] : i \in DOMAIN seq}

IndexOf(seq, x) == CHOOSE i \in DOMAIN seq : seq[i] = x

\* a contract whose big numbers all differ: field k of a view reports
\* 100 * seed + k, the two abandon percentages report speed and range
contractWith(seed, flag, speed, range) ==
  [snark |->
     [name \in Range(SnarkNumbers) \cup Range(SnarkFlags) |->
        IF name \in Range(SnarkNumbers)
        THEN EthersBN(100 * seed + IndexOf(SnarkNumbers, name))
        ELSE (flag = (IndexOf(SnarkFlags, name) % 2 = 0))],
   game |->
     [name \in Range(GameNumbers) \cup Range(GameFlags) \cup Range(GameArrays) |->
        IF name = "ABANDON_SPEED_CHANGE_PERCENT" THEN EthersBN(speed)
        ELSE IF name = "ABANDON_RANGE_CHANGE_PERCENT" THEN EthersBN(range)
        ELSE IF name \in Range(GameNumbers)
        THEN EthersBN(100 * seed + 10 + IndexOf(GameNumbers, name))
        ELSE IF name \in Range(GameFlags)
        THEN (flag = (IndexOf(GameFlags, name) % 2 = 1))
        ELSE [i \in 0..9 |-> EthersBN(1000 * seed + 100 * IndexOf(GameArrays, name) + i)]],
   TOKEN_MINT_END_TIMESTAMP |-> EthersBN(100 * seed + 50),
   adminAddress |-> <<"0", "x">> \o Zeros(39) \o <<IF flag THEN "a" ELSE "B">>,
   planetLevelThresholds |-> [i \in 0..9 |-> EthersBN(1000 * seed + 300 + i)],
   cumulativeRarities |-> [i \in 0..9 |-> EthersBN(1000 * seed + 400 + i)]]

Contracts ==
  {contractWith(seed, flag, speed, range) :
     seed \in 1..2, flag \in BOOLEAN, speed \in 0..MaxPercent, range \in 0..MaxPercent}

\* the names of the constants record that the model covers
ConstantNames ==
  Range(SnarkNumbers) \cup Range(SnarkFlags) \cup Range(GameNumbers) \cup Range(GameFlags)
    \cup Range(GameArrays)
    \cup {"CLAIM_PLANET_COOLDOWN", "TOKEN_MINT_END_SECONDS", "PLANET_LEVEL_THRESHOLDS",
          "planetLevelThresholds", "planetCumulativeRarities", "adminAddress"}

\* getConstants: the constants record built from the contract's views
getConstants(c) ==
  LET snark == c.snark
      game == c.game
      thresholds == [i \in 0..9 |-> toNumber(c.planetLevelThresholds[i])]
  IN [name \in ConstantNames |->
        CASE name = "ABANDON_SPEED_CHANGE_PERCENT" ->
               toNumber(game["ABANDON_RANGE_CHANGE_PERCENT"])
          [] name = "ABANDON_RANGE_CHANGE_PERCENT" ->
               toNumber(game["ABANDON_SPEED_CHANGE_PERCENT"])
          [] name \in Range(SnarkNumbers) -> toNumber(snark[name])
          [] name \in Range(SnarkFlags) -> snark[name]
          [] name \in Range(GameNumbers)
               \ {"ABANDON_SPEED_CHANGE_PERCENT", "ABANDON_RANGE_CHANGE_PERCENT"} ->
               toNumber(game[name])
          [] name \in Range(GameFlags) -> game[name]
          [] name \in Range(GameArrays) -> [i \in 0..9 |-> toNumber(game[name][i])]
          [] name = "CLAIM_PLANET_COOLDOWN" -> 0
          [] name = "TOKEN_MINT_END_SECONDS" -> toNumber(c.TOKEN_MINT_END_TIMESTAMP)
          [] name = "PLANET_LEVEL_THRESHOLDS" -> [i \in 0..9 |-> thresholds[i]]
          [] name = "planetLevelThresholds" -> thresholds
          [] name = "planetCumulativeRarities" ->
               [i \in 0..9 |-> toNumber(c.cumulativeRarities[i])]
          [] name = "adminAddress" -> address(c.adminAddress)]

NoConstants == [name \in {} |-> 0]

\* the contract is deployed with its constants; getConstants was not called
ConstantsInit ==
  /\ contractConstants \in Contracts
  /\ constants = NoConstants
  /\ constantsPc = "idle"

ConstantsParked ==
  /\ contractConstants = contractWith(1, TRUE, 0, 0)
  /\ constants = NoConstants
  /\ constantsPc = "idle"

getConstantsCall ==
  /\ constantsPc = "idle"
  /\ constants' = getConstants(contractConstants)
  /\ constantsPc' = "returned"
  /\ UNCHANGED contractConstants

ConstantsNext == getConstantsCall

\* every constant other than the two abandon percentages is the value the
\* contract reports under the same name, as a number where it is a big number
ConstantsSameName ==
  constantsPc = "returned" =>
    /\ \A name \in (Range(SnarkNumbers) \cup Range(GameNumbers))
                     \ {"ABANDON_SPEED_CHANGE_PERCENT", "ABANDON_RANGE_CHANGE_PERCENT"} :
         constants[name] = (IF name \in Range(SnarkNumbers) THEN contractConstants.snark[name]
                            ELSE contractConstants.game[name]).bn
    /\ \A name \in Range(SnarkFlags) : constants[name] = contractConstants.snark[name]
    /\ \A name \in Range(GameFlags) : constants[name] = contractConstants.game[name]
    /\ \A name \in Range(GameArrays) : \A i \in 0..9 :
         constants[name][i] = contractConstants.game[name][i].bn
    /\ \A i \in 0..9 :
         /\ constants["planetLevelThresholds"][i] = contractConstants.planetLevelThresholds[i].bn
         /\ constants["PLANET_LEVEL_THRESHOLDS"][i] = contractConstants.planetLevelThresholds[i].bn

\* C13: getConstants returns, for every constant it reads from the contract,
\* the value the contract reports under the same name, as a number where it
\* is a big number; in particular ABANDON_SPEED_CHANGE_PERCENT and
\* ABANDON_RANGE_CHANGE_PERCENT each equal the contract's constant of that
\* name.
C13_ConstantsByName ==
  /\ ConstantsSameName
  /\ constantsPc = "returned" =>
       /\ constants["ABANDON_SPEED_CHANGE_PERCENT"]
            = contractConstants.game["ABANDON_SPEED_CHANGE_PERCENT"].bn
       /\ constants["ABANDON_RANGE_CHANGE_PERCENT"]
            = contractConstants.game["ABANDON_RANGE_CHANGE_PERCENT"].bn

(***************************************************************************)
(* The subscription to the contract's events: setupEventListeners hands    *)
(* the handlers and a topic filter to the connection, removeEventListeners *)
(* takes listeners off the contract.  The connection (not part of the      *)
(* sources) is taken to run the handler of a log whose topic passes the    *)
(* filter and whose event still has a listener.                            *)
(***************************************************************************)
MaxLogs == 2

\* the events named in the topics of the filter
filterTopics ==
  {"ArrivalQueued", "ArtifactActivated", "ArtifactDeactivated", "ArtifactDeposited",
   "ArtifactFound", "ArtifactWithdrawn", "LocationRevealed", "PlanetHatBought",
   "PlanetProspected", "PlanetSilverWithdrawn", "PlanetTransferred", "PlanetInvaded",
   "PlanetCaptured", "PlayerInitialized", "AdminOwnershipChanged", "AdminGiveSpaceship",
   "PauseStateChanged", "LobbyCreated"}

\* the events that have a handler in eventHandlers
handledEvents == {e.type : e \in ContractEvents}

\* removeEventListeners: the listeners of these events are removed
removeEventListeners(installed) ==
  installed \ {"PlayerInitialized", "ArrivalQueued", "PlanetUpgraded", "PlanetHatBought",
               "PlanetTransferred", "ArtifactFound", "ArtifactDeposited",
               "ArtifactWithdrawn", "ArtifactActivated", "ArtifactDeactivated",
               "LocationRevealed", "PlanetSilverWithdrawn", "PlanetInvaded",
               "PlanetCaptured"}

\* the events the contract can log, as far as the subscription names them
LogTypes == handledEvents \cup filterTopics

\* how many notifications the handler of an event emits
emittedBy(t) == Len(eventHandlers(CHOOSE e \in ContractEvents : e.type = t))

\* the constructor has called setupEventListeners
SubscriptionInit ==
  /\ listeners = handledEvents
  /\ destroyed = FALSE
  /\ outcomes = <<>>

\* the contract logs an event: the handler runs if the topic passes the
\* filter and the event has a listener
contractLogs(t) ==
  /\ Len(outcomes) < MaxLogs
  /\ outcomes' = Append(outcomes,
       [type |-> t,
        afterDestroy |-> destroyed,
        outcome |-> IF t \notin filterTopics THEN "filtered out"
                    ELSE IF t \notin listeners THEN "no listener"
                    ELSE "handled",
        emitted |-> IF t \in filterTopics /\ t \in listeners THEN emittedBy(t) ELSE 0])
  /\ UNCHANGED <<listeners, destroyed>>

\* destroy(): removeEventListeners()
destroy ==
  /\ ~destroyed
  /\ listeners' = removeEventListeners(listeners)
  /\ destroyed' = TRUE
  /\ UNCHANGED outcomes

SubscriptionNext ==
  \/ \E t \in LogTypes : contractLogs(t)
  \/ destroy

\* C17: after destroy() every listener installed by setupEventListeners is
\* removed: no contract event of a handled type, PauseStateChanged,
\* AdminOwnershipChanged, AdminGiveSpaceship and LobbyCreated included,
\* produces a notification afterwards.
C17_DestroyRemovesAll ==
  /\ destroyed => listeners = {}
  /\ \A i \in DOMAIN outcomes : outcomes[i].afterDestroy => outcomes[i].emitted = 0

\* C18: the subscription is consistent: every event with a handler,
\* PlanetUpgraded included, is among the topics of the filter, and every
\* event in the filter has a handler; so before destroy() no log of a handled
\* event is filtered out and no log that passes the filter lacks a handler.
C18_FilterMatchesHandlers ==
  /\ handledEvents \subseteq filterTopics
  /\ filterTopics \subseteq handledEvents
  /\ \A i \in DOMAIN outcomes :
       ~outcomes[i].afterDestroy => outcomes[i].outcome = "handled"

(***************************************************************************)
(* ContractsAPI.bulkGetPlanets after its three bulk reads: the planets are *)
(* decoded index by index from the raw records.  A raw record is named by  *)
(* the view it came from and the id it was asked for; an array that came   *)
(* back short has undefined at its missing indices.                        *)
(***************************************************************************)
MaxToLoad == 2
MaxPlanetId == 3

RECURSIVE hexToInt(_)
hexToInt(hex) ==
  IF hex = <<>> THEN 0
  ELSE 16 * hexToInt(SubSeq(hex, 1, Len(hex) - 1)) + hexValue(hex[Len(hex)])

RECURSIVE decToInt(_)
decToInt(dec) ==
  IF dec = <<>> THEN 0
  ELSE 10 * decToInt(SubSeq(dec, 1, Len(dec) - 1)) + hexValue(dec[Len(dec)])

\* locationIdToDecStr of the serde package: the id as a decimal string
locationIdToDecStr(id) == toDec(hexToInt(id))

\* locationIdFromDecStr of the serde package: 64 hex digits
locationIdFromDecStr(dec) == Zeros(64 - Len(toHex(decToInt(dec)))) \o toHex(decToInt(dec))

LocationIds == {locationIdFromEthersBN(n) : n \in 1..MaxPlanetId}

\* the lists of planets to load: no id twice
ToLoadLists ==
  {l \in UNION {[1..k -> LocationIds] : k \in 0..MaxToLoad} :
     \A i, j \in DOMAIN l : i # j => l[i] # l[j]}

undefined == [view |-> "undefined", id |-> <<>>]

\* what a view of the contract returns for an id
rawRecord(view, dec) == [view |-> view, id |-> dec]

\* the aggregated answer of a view for the list, its first k records returned
rawArray(view, toLoad, k) ==
  [i \in DOMAIN toLoad |->
     IF i <= k THEN rawRecord(view, locationIdToDecStr(toLoad[i])) ELSE undefined]

\* new TxCollection(): an empty collection of its own
TxCollection(i) == [instance |-> i, txs |-> <<>>]

\* decodePlanet of the serde package: the planet of the three raw records
decodePlanet(dec, rawPlanet, rawExtendedInfo, rawExtendedInfo2) ==
  [locationId |-> locationIdFromDecStr(dec),
   planet |-> rawPlanet,
   extendedInfo |-> rawExtendedInfo,
   extendedInfo2 |-> rawExtendedInfo2,
   transactions |-> undefined]

\* planets.set(key, value)
MapSet(map, key, value) ==
  [k \in DOMAIN map \cup {key} |-> IF k = key THEN value ELSE map[k]]

\* faulty variant: one of the two raw records is enough
RECURSIVE bulkGetPlanetsEither(_, _, _, _, _)
bulkGetPlanetsEither(toLoad, raw, ext, ext2, n) ==
  IF n = 0 THEN [k \in {} |-> undefined]
  ELSE LET map == bulkGetPlanetsEither(toLoad, raw, ext, ext2, n - 1)
       IN IF raw[n] # undefined \/ ext[n] # undefined
          THEN LET planet == decodePlanet(locationIdToDecStr(toLoad[n]), raw[n], ext[n],
                                          ext2[n])
               IN MapSet(map, planet.locationId,
                         [planet EXCEPT !.transactions = TxCollection(n)])
          ELSE map

\* bulkGetPlanets: the loop over the first n indices of toLoadPlanets
RECURSIVE bulkGetPlanets(_, _, _, _, _)
bulkGetPlanets(toLoad, raw, ext, ext2, n) ==
  IF n = 0 THEN [k \in {} |-> undefined]
  ELSE LET map == bulkGetPlanets(toLoad, raw, ext, ext2, n - 1)
       IN IF raw[n] # undefined /\ ext[n] # undefined
          THEN LET planet == decodePlanet(locationIdToDecStr(toLoad[n]), raw[n], ext[n],
                                          ext2[n])
               IN MapSet(map, planet.locationId,
                         [planet EXCEPT !.transactions = TxCollection(n)])
          ELSE map

NoPlanets == [k \in {} |-> undefined]

\* bulkGetPlanets was called with a list and its three bulk reads are back
PlanetsInit ==
  /\ toLoadPlanets \in ToLoadLists
  /\ \E k \in 0..Len(toLoadPlanets) :
       rawPlanets = rawArray("bulkGetPlanetsByIds", toLoadPlanets, k)
  /\ \E k \in 0..Len(toLoadPlanets) :
       rawPlanetsExtendedInfo = rawArray("bulkGetPlanetsExtendedInfoByIds", toLoadPlanets, k)
  /\ \E k \in 0..Len(toLoadPlanets) :
       rawPlanetsExtendedInfo2 = rawArray("bulkGetPlanetsExtendedInfo2ByIds", toLoadPlanets, k)
  /\ planets = NoPlanets
  /\ planetsPc = "decoding"

PlanetsParked ==
  /\ toLoadPlanets = <<>>
  /\ rawPlanets = <<>>
  /\ rawPlanetsExtendedInfo = <<>>
  /\ rawPlanetsExtendedInfo2 = <<>>
  /\ planets = NoPlanets
  /\ planetsPc = "decoding"

\* decodePlanet is handed undefined for the second extended info
decodesUndefined ==
  \E i \in DOMAIN toLoadPlanets :
    /\ rawPlanets[i] # undefined
    /\ rawPlanetsExtendedInfo[i] # undefined
    /\ rawPlanetsExtendedInfo2[i] = undefined

\* the loop ends and the map is returned
bulkGetPlanetsReturns ==
  /\ planetsPc = "decoding"
  /\ planets' = bulkGetPlanets(toLoadPlanets, rawPlanets, rawPlanetsExtendedInfo,
                               rawPlanetsExtendedInfo2, Len(toLoadPlanets))
  /\ planetsPc' = "returned"
  /\ UNCHANGED <<toLoadPlanets, rawPlanets, rawPlanetsExtendedInfo, rawPlanetsExtendedInfo2>>

\* decodePlanet may throw on a missing second extended info: no map then
bulkGetPlanetsThrows ==
  /\ planetsPc = "decoding"
  /\ decodesUndefined
  /\ planetsPc' = "threw"
  /\ UNCHANGED <<toLoadPlanets, rawPlanets, rawPlanetsExtendedInfo, rawPlanetsExtendedInfo2,
                 planets>>

PlanetsNext ==
  \/ bulkGetPlanetsReturns
  \/ bulkGetPlanetsThrows

\* C20: the keys of the map bulkGetPlanets returns are among the requested
\* ids; the planet of index i is present exactly when the raw planet and the
\* raw extended info of index i were both returned; it is decoded from the
\* three raw records of index i under the id toLoadPlanets[i], and carries an
\* empty transaction collection of its own.
C20_PlanetsByIndex ==
  planetsPc = "returned" =>
    /\ DOMAIN planets \subseteq {toLoadPlanets[i] : i \in DOMAIN toLoadPlanets}
    /\ \A i \in DOMAIN toLoadPlanets :
         LET id == toLoadPlanets[i]
         IN /\ id \in DOMAIN planets <=>
                 (rawPlanets[i] # undefined /\ rawPlanetsExtendedInfo[i] # undefined)
            /\ id \in DOMAIN planets =>
                 /\ planets[id].locationId = id
                 /\ planets[id].planet = rawPlanets[i]
                 /\ planets[id].planet.view = "bulkGetPlanetsByIds"
                 /\ planets[id].extendedInfo = rawPlanetsExtendedInfo[i]
                 /\ planets[id].extendedInfo.view = "bulkGetPlanetsExtendedInfoByIds"
                 /\ planets[id].extendedInfo2 = rawPlanetsExtendedInfo2[i]
                 /\ planets[id].transactions.txs = <<>>
                 /\ \A other \in DOMAIN planets \ {id} :
                      planets[other].transactions.instance
                        # planets[id].transactions.instance

\* two planets were asked for; the first came back whole and is in the map,
\* the extended info of the second is missing and the planet with it
C20_Witness ==
  /\ planetsPc = "returned"
  /\ Len(toLoadPlanets) = 2
  /\ toLoadPlanets[1] \in DOMAIN planets
  /\ toLoadPlanets[2] \notin DOMAIN planets
  /\ rawPlanets[2] # undefined
  /\ rawPlanetsExtendedInfo[2] = undefined

(***************************************************************************)
(* ContractsAPI.getPlanetById: two reads of the extended info, a test of   *)
(* their isInitialized flags (index 0 of each record), then the read of    *)
(* the base record and the decoding.                                       *)
(***************************************************************************)

\* what planetsExtendedInfo / planetsExtendedInfo2 return for an id
rawExtended(view, dec, isInitialized) ==
  [view |-> view, id |-> dec, isInitialized |-> isInitialized]

\* the contract's storage: for every id, the isInitialized flags of its two records
ContractStorages == [LocationIds -> [info : BOOLEAN, info2 : BOOLEAN]]

\* faulty variant: only the first extended info is tested
readsPlanetFirstOnly(rawExtendedInfo, rawExtendedInfo2) ==
  rawExtendedInfo.isInitialized

\* neither 'return undefined' is taken
readsPlanet(rawExtendedInfo, rawExtendedInfo2) ==
  ~(~rawExtendedInfo.isInitialized) /\ ~(~rawExtendedInfo2.isInitialized)

ByIdInit ==
  /\ storage \in ContractStorages
  /\ byIdPc = "idle"
  /\ planetId = <<>>
  /\ byIdReads = <<>>
  /\ byIdExtendedInfo = undefined
  /\ byIdExtendedInfo2 = undefined
  /\ byIdResult = undefined

ByIdParked ==
  /\ storage = [id \in LocationIds |-> [info |-> FALSE, info2 |-> FALSE]]
  /\ byIdPc = "idle"
  /\ planetId = <<>>
  /\ byIdReads = <<>>
  /\ byIdExtendedInfo = undefined
  /\ byIdExtendedInfo2 = undefined
  /\ byIdResult = undefined

\* getPlanetById(id) up to its first await: planetsExtendedInfo is read
getPlanetById(id) ==
  /\ byIdPc = "idle"
  /\ planetId' = id
  /\ byIdReads' = <<[view |-> "planetsExtendedInfo", id |-> locationIdToDecStr(id)]>>
  /\ byIdExtendedInfo' =
       rawExtended("planetsExtendedInfo", locationIdToDecStr(id), storage[id].info)
  /\ byIdExtendedInfo2' = undefined
  /\ byIdResult' = undefined
  /\ byIdPc' = "info2"
  /\ UNCHANGED storage

\* the second await: planetsExtendedInfo2 is read
readExtendedInfo2 ==
  /\ byIdPc = "info2"
  /\ byIdReads' =
       Append(byIdReads,
              [view |-> "planetsExtendedInfo2", id |-> locationIdToDecStr(planetId)])
  /\ byIdExtendedInfo2' =
       rawExtended("planetsExtendedInfo2", locationIdToDecStr(planetId),
                   storage[planetId].info2)
  /\ byIdPc' = "test"
  /\ UNCHANGED <<storage, planetId, byIdExtendedInfo, byIdResult>>

\* the two tests, then either undefined or the read of planets and the decoding
getPlanetByIdReturns ==
  /\ byIdPc = "test"
  /\ IF readsPlanet(byIdExtendedInfo, byIdExtendedInfo2)
     THEN /\ byIdReads' =
               Append(byIdReads, [view |-> "planets", id |-> locationIdToDecStr(planetId)])
          /\ byIdResult' =
               decodePlanet(locationIdToDecStr(planetId),
                            rawRecord("planets", locationIdToDecStr(planetId)),
                            byIdExtendedInfo, byIdExtendedInfo2)
     ELSE /\ byIdReads' = byIdReads
          /\ byIdResult' = undefined
  /\ byIdPc' = "idle"
  /\ UNCHANGED <<storage, planetId, byIdExtendedInfo, byIdExtendedInfo2>>

ByIdNext ==
  \/ \E id \in LocationIds : getPlanetById(id)
  \/ readExtendedInfo2
  \/ getPlanetByIdReturns

\* a call of getPlanetById has returned
byIdReturned == byIdPc = "idle" /\ planetId # <<>>

\* C21: getPlanetById returns undefined whenever one of the two extended-info
\* records of the planet is uninitialized, and then never reads the base
\* record; otherwise it returns the planet decoded from the base record and
\* both extended-info records of that id.
C21_UndefinedWithoutBaseRead ==
  byIdReturned =>
    LET dec == locationIdToDecStr(planetId)
        basic == [view |-> "planets", id |-> dec]
    IN IF ~storage[planetId].info \/ ~storage[planetId].info2
       THEN /\ byIdResult = undefined
            /\ \A k \in DOMAIN byIdReads : byIdReads[k].view # "planets"
       ELSE /\ byIdResult # undefined
            /\ byIdResult.locationId = planetId
            /\ byIdResult.planet = basic
            /\ byIdResult.extendedInfo = rawExtended("planetsExtendedInfo", dec, TRUE)
            /\ byIdResult.extendedInfo2 = rawExtended("planetsExtendedInfo2", dec, TRUE)
            /\ byIdReads[Len(byIdReads)] = basic

\* the first record is initialized, the second is not: undefined, two reads
C21_Witness ==
  /\ byIdReturned
  /\ storage[planetId].info
  /\ ~storage[planetId].info2
  /\ byIdResult = undefined
  /\ Len(byIdReads) = 2

(***************************************************************************)
(* The planet a location holds before the contract knows it: space type    *)
(* from perlin, level and type from bytes of the location id, default      *)
(* stats from the level, the space type and the planet type.               *)
(***************************************************************************)
MaxPerlin == 3

MIN_PLANET_LEVEL == 0
MAX_PLANET_LEVEL == 9

NEBULA == 0
SPACE == 1
DEEP_SPACE == 2
DEAD_SPACE == 3

PLANET == 0
SILVER_MINE == 1
TRADING_POST == 3
SILVER_BANK == 4

\* getBytesFromHex of the hexgen package: the bytes startByte..endByte-1 as a number
getBytesFromHex(hexStr, startByte, endByte) ==
  hexToInt(SubSeq(hexStr, 2 * startByte + 1, 2 * endByte))

\* a location id with the given level bytes (4..6) and type byte (8)
hashOf(levelBytes, typeByte) ==
  Zeros(8) \o Zeros(6 - Len(toHex(levelBytes))) \o toHex(levelBytes) \o Zeros(2)
    \o Zeros(2 - Len(toHex(typeByte))) \o toHex(typeByte) \o Zeros(46)

LevelBytes == {0, 47, 48, 4079, 65520, 16777215}
TypeBytes == {0, 16, 255}

WorldLocations ==
  {[hash |-> hashOf(l, t), perlin |-> p] : l \in LevelBytes, t \in TypeBytes, p \in 0..MaxPerlin}

\* getPlanetLevelThresholds: the default ones, none above any id, and unordered ones
ThresholdArrays ==
  {<<16777216, 4194292, 1048561, 262128, 65520, 16368, 4080, 1008, 240, 48>>,
   <<0, 0, 0, 0, 0, 0, 0, 0, 0, 0>>,
   <<0, 0, 5000, 0, 0, 100, 0, 0, 0, 0>>}

\* PERLIN_THRESHOLD_1..3: rising, two equal, and out of order
PerlinThresholds == {<<1, 2, 3>>, <<1, 1, 3>>, <<2, 1, 3>>}

\* getTypeWeights, one weight vector for a space type and a level
WeightTables ==
  {[s \in NEBULA..DEAD_SPACE |-> [l \in 1..10 |->
      IF l = 1 THEN <<1, 0, 0, 0, 0>>
      ELSE IF s = NEBULA THEN <<13, 2, 0, 0, 1>> ELSE <<10, 4, 1, 0, 1>>]],
   [s \in NEBULA..DEAD_SPACE |-> [l \in 1..10 |-> <<128, 64, 32, 16, 16>>]],
   [s \in NEBULA..DEAD_SPACE |-> [l \in 1..10 |->
      IF s = DEEP_SPACE THEN <<0, 0, 0, 0, 0>> ELSE <<0, 3, 0, 0, 1>>]]}

\* what getConstants hands to the functions below
GeneratorConstants ==
  {[planetLevelThresholds |-> th,
    MAX_NATURAL_PLANET_LEVEL |-> mx,
    PERLIN_THRESHOLD_1 |-> pt[1],
    PERLIN_THRESHOLD_2 |-> pt[2],
    PERLIN_THRESHOLD_3 |-> pt[3],
    PLANET_TYPE_WEIGHTS |-> w,
    defaultSilverCap |-> [l \in 1..10 |-> 100 * l],
    defaultSilverGrowth |-> [l \in 1..10 |-> l - 1],
    TIME_FACTOR_HUNDREDTHS |-> tf] :
     th \in ThresholdArrays, mx \in {3, 12}, pt \in PerlinThresholds, w \in WeightTables,
     tf \in {100, 150}}

\* faulty variant: a perlin equal to the first threshold is still NEBULA
spaceTypeFromPerlinAtMost(consts, perlin) ==
  IF perlin <= consts.PERLIN_THRESHOLD_1 THEN NEBULA
  ELSE IF perlin < consts.PERLIN_THRESHOLD_2 THEN SPACE
  ELSE IF perlin < consts.PERLIN_THRESHOLD_3 THEN DEEP_SPACE
  ELSE DEAD_SPACE

spaceTypeFromPerlin(consts, perlin) ==
  IF perlin < consts.PERLIN_THRESHOLD_1 THEN NEBULA
  ELSE IF perlin < consts.PERLIN_THRESHOLD_2 THEN SPACE
  ELSE IF perlin < consts.PERLIN_THRESHOLD_3 THEN DEEP_SPACE
  ELSE DEAD_SPACE

\* faulty variant: a threshold equal to the level bytes is enough
RECURSIVE levelLoopAtMost(_, _, _)
levelLoopAtMost(consts, levelBigInt, type) ==
  IF type < MIN_PLANET_LEVEL THEN MIN_PLANET_LEVEL
  ELSE IF levelBigInt <= consts.planetLevelThresholds[type + 1] THEN type
  ELSE levelLoopAtMost(consts, levelBigInt, type - 1)

\* the loop of planetLevelFromHexPerlin from type downwards
RECURSIVE levelLoop(_, _, _)
levelLoop(consts, levelBigInt, type) ==
  IF type < MIN_PLANET_LEVEL THEN MIN_PLANET_LEVEL
  ELSE IF levelBigInt < consts.planetLevelThresholds[type + 1] THEN type
  ELSE levelLoop(consts, levelBigInt, type - 1)

\* the three caps of planetLevelFromHexPerlin, in the order of the code
capLevel(consts, spaceType, ret) ==
  LET ret1 == IF spaceType = NEBULA /\ ret > 4 THEN 4 ELSE ret
      ret2 == IF spaceType = SPACE /\ ret1 > 5 THEN 5 ELSE ret1
  IN IF ret2 > consts.MAX_NATURAL_PLANET_LEVEL THEN consts.MAX_NATURAL_PLANET_LEVEL ELSE ret2

planetLevelFromHexPerlin(consts, hexStr, perlin) ==
  capLevel(consts, spaceTypeFromPerlin(consts, perlin),
           levelLoop(consts, getBytesFromHex(hexStr, 4, 7), MAX_PLANET_LEVEL))

\* Math.floor((x * 256) / weightSum): NaN when the weights sum to zero (0 / 0)
floorOf256ths(x, weightSum) ==
  IF weightSum = 0 THEN [isNaN |-> TRUE, value |-> 0]
  ELSE [isNaN |-> FALSE, value |-> (x * 256) \div weightSum]

\* typeByte >= thresholds[i]: false against NaN
atLeast(typeByte, threshold) == ~threshold.isNaN /\ typeByte >= threshold.value

\* weights.reduce((x, y) => x + y)
RECURSIVE reduceSum(_)
reduceSum(arr) ==
  IF Len(arr) = 1 THEN arr[1] ELSE reduceSum(SubSeq(arr, 1, Len(arr) - 1)) + arr[Len(arr)]

\* faulty variant: the threshold of index i leaves out the weight of index i
RECURSIVE typeThresholdsShifted(_, _)
typeThresholdsShifted(weights, i) ==
  IF i = 1 THEN <<reduceSum(weights)>>
  ELSE LET before == typeThresholdsShifted(weights, i - 1)
       IN Append(before, before[i - 1] - weights[i - 1])

\* thresholds before the scaling: weightSum less the weights up to index i
RECURSIVE typeThresholds(_, _)
typeThresholds(weights, i) ==
  IF i = 1 THEN <<reduceSum(weights) - weights[1]>>
  ELSE LET before == typeThresholds(weights, i - 1)
       IN Append(before, before[i - 1] - weights[i])

\* thresholds.map(...)
scaledThresholds(weights) ==
  LET raw == typeThresholds(weights, Len(weights))
  IN [i \in DOMAIN raw |-> floorOf256ths(raw[i], reduceSum(weights))]

\* PLANET_TYPE_WEIGHTS[spaceType][planetLevel] of the location
weightsOf(consts, hexStr, perlin) ==
  consts.PLANET_TYPE_WEIGHTS[spaceTypeFromPerlin(consts, perlin)][
    planetLevelFromHexPerlin(consts, hexStr, perlin) + 1]

\* the second loop of planetTypeFromHexPerlin ends without a return
reachesFallback(consts, hexStr, perlin) ==
  LET thresholds == scaledThresholds(weightsOf(consts, hexStr, perlin))
  IN \A i \in DOMAIN thresholds : ~atLeast(getBytesFromHex(hexStr, 8, 9), thresholds[i])

planetTypeFromHexPerlin(consts, hexStr, perlin) ==
  LET thresholds == scaledThresholds(weightsOf(consts, hexStr, perlin))
      typeByte == getBytesFromHex(hexStr, 8, 9)
      hits == {i \in DOMAIN thresholds : atLeast(typeByte, thresholds[i])}
  IN IF hits = {} THEN PLANET
     ELSE (CHOOSE i \in hits : \A j \in hits : i <= j) - 1

\* a JavaScript number as a fraction n / d; the factors below are exact in it
Num(n) == [n |-> n, d |-> 1]
times(x, n, d) == [n |-> x.n * n, d |-> x.d * d]
sameNumber(x, y) == x.n * y.d = y.n * x.d

EMPTY_ADDRESS == <<"0", "x">> \o Zeros(40)

\* silCap and silGro after the space type factors
spaceTypeFactor(spaceType, x) ==
  IF spaceType = DEAD_SPACE THEN times(x, 2, 1)
  ELSE IF spaceType = DEEP_SPACE THEN times(x, 3, 2)
  ELSE IF spaceType = SPACE THEN times(x, 5, 4)
  ELSE x

\* silCap after the planet type factors
planetTypeFactor(planetType, silCap) ==
  IF planetType = SILVER_MINE THEN times(silCap, 2, 1)
  ELSE IF planetType = SILVER_BANK THEN times(silCap, 10, 1)
  ELSE IF planetType = TRADING_POST THEN times(silCap, 2, 1)
  ELSE silCap

\* faulty variant: every planet type starts with half its silver cap
startingSilverAlways(planetType, silCap) == times(silCap, 1, 2)

\* const silver = planetType === PlanetType.SILVER_MINE ? silCap / 2 : 0
startingSilver(planetType, silCap) ==
  IF planetType = SILVER_MINE THEN times(silCap, 1, 2) ELSE Num(0)

\* getDefaultPlanet: the fields that do not hang on bonusFromHex
getDefaultPlanet(consts, location) ==
  LET planetLevel == planetLevelFromHexPerlin(consts, location.hash, location.perlin)
      planetType == planetTypeFromHexPerlin(consts, location.hash, location.perlin)
      spaceType == spaceTypeFromPerlin(consts, location.perlin)
      silGro0 == IF planetType = SILVER_MINE
                 THEN Num(consts.defaultSilverGrowth[planetLevel + 1]) ELSE Num(0)
      silCap == planetTypeFactor(planetType,
                  spaceTypeFactor(spaceType, Num(consts.defaultSilverCap[planetLevel + 1])))
      silGro == times(spaceTypeFactor(spaceType, silGro0), consts.TIME_FACTOR_HUNDREDTHS, 100)
  IN [locationId |-> location.hash,
      perlin |-> location.perlin,
      spaceType |-> spaceType,
      owner |-> EMPTY_ADDRESS,
      hatLevel |-> 0,
      planetLevel |-> planetLevel,
      planetType |-> planetType,
      isHomePlanet |-> FALSE,
      silverCap |-> silCap,
      silverGrowth |-> silGro,
      silver |-> startingSilver(planetType, silCap),
      upgradeState |-> <<0, 0, 0>>,
      transactions |-> TxCollection(0),
      silverSpent |-> 0,
      heldArtifactIds |-> <<>>,
      destroyed |-> FALSE,
      isInContract |-> FALSE,
      syncedWithContract |-> FALSE,
      coordsRevealed |-> FALSE,
      location |-> location,
      invader |-> EMPTY_ADDRESS,
      capturer |-> EMPTY_ADDRESS]

GeneratorInit ==
  /\ genConstants \in GeneratorConstants
  /\ genLocation \in WorldLocations
  /\ genCalled = "none"
  /\ genResult = undefined

GeneratorParked ==
  /\ genConstants = undefined
  /\ genLocation = undefined
  /\ genCalled = "none"
  /\ genResult = undefined

callSpaceTypeFromPerlin ==
  /\ genCalled' = "spaceTypeFromPerlin"
  /\ genResult' = spaceTypeFromPerlin(genConstants, genLocation.perlin)
  /\ UNCHANGED <<genConstants, genLocation>>

callPlanetLevelFromHexPerlin ==
  /\ genCalled' = "planetLevelFromHexPerlin"
  /\ genResult' = planetLevelFromHexPerlin(genConstants, genLocation.hash, genLocation.perlin)
  /\ UNCHANGED <<genConstants, genLocation>>

callPlanetTypeFromHexPerlin ==
  /\ genCalled' = "planetTypeFromHexPerlin"
  /\ genResult' = planetTypeFromHexPerlin(genConstants, genLocation.hash, genLocation.perlin)
  /\ UNCHANGED <<genConstants, genLocation>>

callGetDefaultPlanet ==
  /\ genCalled' = "getDefaultPlanet"
  /\ genResult' = getDefaultPlanet(genConstants, genLocation)
  /\ UNCHANGED <<genConstants, genLocation>>

GeneratorNext ==
  \/ callSpaceTypeFromPerlin
  \/ callPlanetLevelFromHexPerlin
  \/ callPlanetTypeFromHexPerlin
  \/ callGetDefaultPlanet

\* the level bytes of the location and the levels whose threshold is above them
levelBytesOf(hexStr) == getBytesFromHex(hexStr, 4, 7)
levelsAbove(consts, hexStr) ==
  {l \in MIN_PLANET_LEVEL..MAX_PLANET_LEVEL :
     consts.planetLevelThresholds[l + 1] > levelBytesOf(hexStr)}
highestAbove(consts, hexStr) ==
  IF levelsAbove(consts, hexStr) = {} THEN MIN_PLANET_LEVEL
  ELSE CHOOSE l \in levelsAbove(consts, hexStr) : \A m \in levelsAbove(consts, hexStr) : m <= l

\* C22: planetLevelFromHexPerlin returns a level of MIN_PLANET_LEVEL..
\* MAX_PLANET_LEVEL that is at most MAX_NATURAL_PLANET_LEVEL, at most 4 in
\* NEBULA and at most 5 in SPACE; before the caps it is the highest level
\* whose threshold is strictly above the level bytes of the id, or
\* MIN_PLANET_LEVEL when no threshold is.
C22_LevelWithinCaps ==
  genCalled = "planetLevelFromHexPerlin" =>
    LET space == spaceTypeFromPerlin(genConstants, genLocation.perlin)
        uncapped == levelLoop(genConstants, levelBytesOf(genLocation.hash), MAX_PLANET_LEVEL)
    IN /\ genResult \in MIN_PLANET_LEVEL..MAX_PLANET_LEVEL
       /\ genResult <= genConstants.MAX_NATURAL_PLANET_LEVEL
       /\ space = NEBULA => genResult <= 4
       /\ space = SPACE => genResult <= 5
       /\ uncapped = highestAbove(genConstants, genLocation.hash)
       /\ genResult <= uncapped
       /\ genResult < uncapped =>
            \/ genResult = genConstants.MAX_NATURAL_PLANET_LEVEL
            \/ space = NEBULA /\ genResult = 4
            \/ space = SPACE /\ genResult = 5

\* level bytes 47 under the default thresholds give level 9, cut to 5 in SPACE
C22_Witness ==
  /\ genCalled = "planetLevelFromHexPerlin"
  /\ levelBytesOf(genLocation.hash) = 47
  /\ genConstants.planetLevelThresholds[10] = 48
  /\ genConstants.MAX_NATURAL_PLANET_LEVEL = 12
  /\ spaceTypeFromPerlin(genConstants, genLocation.perlin) = SPACE
  /\ genResult = 5

\* C23: with PERLIN_THRESHOLD_1 <= PERLIN_THRESHOLD_2 <= PERLIN_THRESHOLD_3,
\* spaceTypeFromPerlin gives NEBULA below the first threshold, SPACE from the
\* first up to the second, DEEP_SPACE from the second up to the third and
\* DEAD_SPACE from the third on, so the space type never falls as perlin rises.
C23_SpaceTypeBands ==
  LET T1 == genConstants.PERLIN_THRESHOLD_1
      T2 == genConstants.PERLIN_THRESHOLD_2
      T3 == genConstants.PERLIN_THRESHOLD_3
      p == genLocation.perlin
  IN (genCalled = "spaceTypeFromPerlin" /\ T1 <= T2 /\ T2 <= T3) =>
       /\ genResult \in {NEBULA, SPACE, DEEP_SPACE, DEAD_SPACE}
       /\ p < T1 => genResult = NEBULA
       /\ (T1 <= p /\ p < T2) => genResult = SPACE
       /\ (T2 <= p /\ p < T3) => genResult = DEEP_SPACE
       /\ p >= T3 => genResult = DEAD_SPACE
       /\ \A q \in 0..MaxPerlin :
            /\ q <= p => spaceTypeFromPerlin(genConstants, q) <= genResult
            /\ q >= p => spaceTypeFromPerlin(genConstants, q) >= genResult

\* a perlin equal to the first threshold is SPACE
C23_Witness ==
  /\ genCalled = "spaceTypeFromPerlin"
  /\ genConstants.PERLIN_THRESHOLD_1 < genConstants.PERLIN_THRESHOLD_2
  /\ genConstants.PERLIN_THRESHOLD_2 < genConstants.PERLIN_THRESHOLD_3
  /\ genLocation.perlin = genConstants.PERLIN_THRESHOLD_1
  /\ genResult = SPACE

\* the weight vector and the type byte planetTypeFromHexPerlin works on
genWeights == weightsOf(genConstants, genLocation.hash, genLocation.perlin)
genTypeByte == getBytesFromHex(genLocation.hash, 8, 9)

C26_DefaultPlanetSilver ==
  genCalled = "getDefaultPlanet" =>
    /\ genResult.silverGrowth.n # 0 => genResult.planetType = SILVER_MINE
    /\ genResult.silver.n # 0 => genResult.planetType = SILVER_MINE
    /\ genResult.planetType = SILVER_MINE =>
         sameNumber(times(genResult.silver, 2, 1), genResult.silverCap)
    /\ genResult.owner = EMPTY_ADDRESS
    /\ genResult.upgradeState = <<0, 0, 0>>
    /\ genResult.isInContract = FALSE

\* a silver mine in dead space above level 0: silver and silver growth
C26_Witness ==
  /\ genCalled = "getDefaultPlanet"
  /\ genResult.planetType = SILVER_MINE
  /\ genResult.spaceType = DEAD_SPACE
  /\ genResult.planetLevel > 0
  /\ genResult.silver.n > 0
  /\ genResult.silverGrowth.n > 0

(***************************************************************************)
(* ContractsAPI.getSilverNeeded and planetCanUpgrade.  The silver needed   *)
(* is a product of JavaScript numbers: IEEE 754 doubles, each product      *)
(* rounded to 53 significant bits, ties to even.  A double is written as   *)
(* m * 2^e with m a sequence of bits, the lowest first.                    *)
(***************************************************************************)
RECURSIVE intBits(_)
intBits(n) == IF n = 0 THEN <<>> ELSE <<n % 2>> \o intBits(n \div 2)

RECURSIVE trimBits(_)
trimBits(b) ==
  IF b = <<>> \/ b[Len(b)] = 1 THEN b ELSE trimBits(SubSeq(b, 1, Len(b) - 1))

RECURSIVE addBits(_, _, _)
addBits(a, b, carry) ==
  IF a = <<>> /\ b = <<>> THEN (IF carry = 1 THEN <<1>> ELSE <<>>)
  ELSE LET x == IF a = <<>> THEN 0 ELSE Head(a)
           y == IF b = <<>> THEN 0 ELSE Head(b)
           s == x + y + carry
       IN <<s % 2>> \o addBits(IF a = <<>> THEN a ELSE Tail(a),
                               IF b = <<>> THEN b ELSE Tail(b), s \div 2)

\* a * b, one addition for each bit of b
RECURSIVE mulBitsBy(_, _)
mulBitsBy(a, b) ==
  IF b = <<>> THEN <<>>
  ELSE LET rest == <<0>> \o mulBitsBy(a, Tail(b))
       IN IF Head(b) = 1 THEN addBits(a, rest, 0) ELSE rest

mulBits(a, b) == IF Len(b) <= Len(a) THEN mulBitsBy(a, b) ELSE mulBitsBy(b, a)

\* a >= b for two bit sequences without leading zeros
geqBits(a, b) ==
  IF Len(a) # Len(b) THEN Len(a) > Len(b)
  ELSE \/ a = b
       \/ LET differ == {i \in DOMAIN a : a[i] # b[i]}
              top == CHOOSE i \in differ : \A j \in differ : j <= i
          IN a[top] = 1

Double(m, e) == [m |-> m, e |-> e]

\* an integer below 2^53 is a double
toDouble(n) == Double(intBits(n), 0)

\* the nearest double of m * 2^e, ties to even
roundToDouble(m, e) ==
  LET b == trimBits(m)
      drop == Len(b) - 53
  IN IF drop <= 0 THEN Double(b, e)
     ELSE LET kept == SubSeq(b, drop + 1, Len(b))
              guard == b[drop]
              sticky == \E i \in 1..(drop - 1) : b[i] = 1
              up == guard = 1 /\ (sticky \/ kept[1] = 1)
          IN Double(IF up THEN addBits(kept, <<1>>, 0) ELSE kept, e + drop)

\* x * y of two doubles
mulDouble(x, y) == roundToDouble(mulBits(x.m, y.m), x.e + y.e)

\* x >= y of two doubles
geqDouble(x, y) ==
  IF x.e >= y.e
  THEN geqBits(trimBits([i \in 1..(x.e - y.e) |-> 0] \o x.m), trimBits(y.m))
  ELSE geqBits(trimBits(x.m), trimBits([i \in 1..(y.e - x.e) |-> 0] \o y.m))

\* the hex digits of a number, lowest bit first
RECURSIVE hexBits(_)
hexBits(str) ==
  IF str = <<>> THEN <<>>
  ELSE intBits(hexValue(str[Len(str)])) \o
       [i \in 1..(4 - Len(intBits(hexValue(str[Len(str)])))) |-> 0] \o
       hexBits(SubSeq(str, 1, Len(str) - 1))

\* the literal 0.2: the double 0x1.999999999999ap-3
Point2 ==
  Double(trimBits(hexBits(<<"1", "9", "9", "9", "9", "9", "9", "9", "9", "9", "9", "9", "9",
                            "a">>)), 0 - 55)

\* planet.upgradeState.reduce((a, b) => a + b)
totalRank(planet) == reduceSum(planet.upgradeState)

\* (totalLevel + 1) * 0.2 * planet.silverCap
getSilverNeeded(planet) ==
  mulDouble(mulDouble(toDouble(totalRank(planet) + 1), Point2), toDouble(planet.silverCap))

planetCanUpgrade(planet) ==
  IF planet.spaceType = NEBULA /\ totalRank(planet) >= 3 THEN FALSE
  ELSE IF planet.spaceType = SPACE /\ totalRank(planet) >= 4 THEN FALSE
  ELSE IF planet.spaceType = DEEP_SPACE /\ totalRank(planet) >= 5 THEN FALSE
  ELSE IF planet.spaceType = DEAD_SPACE /\ totalRank(planet) >= 5 THEN FALSE
  ELSE /\ planet.planetLevel # 0
       /\ planet.planetType = PLANET
       /\ geqDouble(toDouble(planet.silver), getSilverNeeded(planet))

UpgradeStates ==
  {<<0, 0, 0>>, <<1, 0, 0>>, <<1, 1, 0>>, <<0, 1, 2>>, <<2, 1, 1>>, <<2, 2, 1>>, <<2, 2, 2>>}

\* silver as a share of the silver cap, in hundredths
SilverShares == {0, 19, 20, 21, 59, 60, 61, 80, 100}

SilverCaps == {100, 300}

UpgradePlanets ==
  {[spaceType |-> s, upgradeState |-> u, planetLevel |-> l, planetType |-> t,
    silverCap |-> cap, silver |-> (cap * share) \div 100] :
     s \in NEBULA..DEAD_SPACE, u \in UpgradeStates, l \in {0, 1}, t \in {PLANET, SILVER_MINE},
     cap \in SilverCaps, share \in SilverShares}

UpgradeInit ==
  /\ upgradePlanet \in UpgradePlanets
  /\ upgradeCalled = FALSE
  /\ canUpgrade = FALSE

UpgradeParked ==
  /\ upgradePlanet = undefined
  /\ upgradeCalled = FALSE
  /\ canUpgrade = FALSE

planetCanUpgradeCall ==
  /\ ~upgradeCalled
  /\ upgradeCalled' = TRUE
  /\ canUpgrade' = planetCanUpgrade(upgradePlanet)
  /\ UNCHANGED upgradePlanet

UpgradeNext == planetCanUpgradeCall

\* the upgrade cap of a space type
rankCap(spaceType) == IF spaceType = NEBULA THEN 3 ELSE IF spaceType = SPACE THEN 4 ELSE 5

\* C25 as stated: planetCanUpgrade(planet) is true exactly when the total
\* rank is below the cap of the space type (3, 4, 5, 5), the level is not 0,
\* the type is PLANET and the silver is at least (total rank + 1) * 20% of the
\* silver cap.
C25_CanUpgradeExactly ==
  upgradeCalled =>
    (canUpgrade <=>
       /\ totalRank(upgradePlanet) < rankCap(upgradePlanet.spaceType)
       /\ upgradePlanet.planetLevel # 0
       /\ upgradePlanet.planetType = PLANET
       /\ 5 * upgradePlanet.silver >= (totalRank(upgradePlanet) + 1) * upgradePlanet.silverCap)

\* planetCanUpgrade is never true without the four conditions
CanUpgradeOnlyIf ==
  (upgradeCalled /\ canUpgrade) =>
    /\ totalRank(upgradePlanet) < rankCap(upgradePlanet.spaceType)
    /\ upgradePlanet.planetLevel # 0
    /\ upgradePlanet.planetType = PLANET
    /\ 5 * upgradePlanet.silver >= (totalRank(upgradePlanet) + 1) * upgradePlanet.silverCap

Init ==
  /\ TxInit
  /\ GasParked
  /\ EventInit
  /\ BulkInit
  /\ LobbyParked
  /\ MnemonicInit
  /\ ConstantsParked
  /\ SubscriptionInit
  /\ PlanetsParked
  /\ ByIdParked
  /\ GeneratorParked
  /\ UpgradeParked

Next ==
  /\ TxNext
  /\ UNCHANGED <<gasVars, eventVars, bulkVars, lobbyVars, mnemonicVars,
                 constantsVars, subscriptionVars, planetsVars, byIdVars,
                 generatorVars, upgradeVars>>

Spec == Init /\ [][Next]_vars

InitGas ==
  /\ TxInit
  /\ GasInit
  /\ EventInit
  /\ BulkInit
  /\ LobbyParked
  /\ MnemonicInit
  /\ ConstantsParked
  /\ SubscriptionInit
  /\ PlanetsParked
  /\ ByIdParked
  /\ GeneratorParked
  /\ UpgradeParked

NextGas ==
  /\ GasNext
  /\ UNCHANGED <<txVars, eventVars, bulkVars, lobbyVars, mnemonicVars,
                 constantsVars, subscriptionVars, planetsVars, byIdVars,
                 generatorVars, upgradeVars>>

SpecGas == InitGas /\ [][NextGas]_vars

InitEvents ==
  /\ TxInit
  /\ GasParked
  /\ EventInit
  /\ BulkInit
  /\ LobbyParked
  /\ MnemonicInit
  /\ ConstantsParked
  /\ SubscriptionInit
  /\ PlanetsParked
  /\ ByIdParked
  /\ GeneratorParked
  /\ UpgradeParked

NextEvents ==
  /\ EventNext
  /\ UNCHANGED <<txVars, gasVars, bulkVars, lobbyVars, mnemonicVars,
                 constantsVars, subscriptionVars, planetsVars, byIdVars,
                 generatorVars, upgradeVars>>

SpecEvents == InitEvents /\ [][NextEvents]_vars

InitBulk ==
  /\ TxInit
  /\ GasParked
  /\ EventInit
  /\ BulkInit
  /\ LobbyParked
  /\ MnemonicInit
  /\ ConstantsParked
  /\ SubscriptionInit
  /\ PlanetsParked
  /\ ByIdParked
  /\ GeneratorParked
  /\ UpgradeParked

NextBulk ==
  /\ BulkNext
  /\ UNCHANGED <<txVars, gasVars, eventVars, lobbyVars, mnemonicVars,
                 constantsVars, subscriptionVars, planetsVars, byIdVars,
                 generatorVars, upgradeVars>>

SpecBulk == InitBulk /\ [][NextBulk]_vars

InitLobby ==
  /\ TxInit
  /\ GasParked
  /\ EventInit
  /\ BulkInit
  /\ LobbyInit
  /\ MnemonicInit
  /\ ConstantsParked
  /\ SubscriptionInit
  /\ PlanetsParked
  /\ ByIdParked
  /\ GeneratorParked
  /\ UpgradeParked

NextLobby ==
  /\ LobbyNext
  /\ UNCHANGED <<txVars, gasVars, eventVars, bulkVars, mnemonicVars,
                 constantsVars, subscriptionVars, planetsVars, byIdVars,
                 generatorVars, upgradeVars>>

SpecLobby == InitLobby /\ [][NextLobby]_vars

InitMnemonic ==
  /\ TxInit
  /\ GasParked
  /\ EventInit
  /\ BulkInit
  /\ LobbyParked
  /\ MnemonicInit
  /\ ConstantsParked
  /\ SubscriptionInit
  /\ PlanetsParked
  /\ ByIdParked
  /\ GeneratorParked
  /\ UpgradeParked

NextMnemonic ==
  /\ MnemonicNext
  /\ UNCHANGED <<txVars, gasVars, eventVars, bulkVars, lobbyVars, constantsVars,
                 subscriptionVars, planetsVars, byIdVars, generatorVars,
                 upgradeVars>>

SpecMnemonic == InitMnemonic /\ [][NextMnemonic]_vars

InitConstants ==
  /\ TxInit
  /\ GasParked
  /\ EventInit
  /\ BulkInit
  /\ LobbyParked
  /\ MnemonicInit
  /\ ConstantsInit
  /\ SubscriptionInit
  /\ PlanetsParked
  /\ ByIdParked
  /\ GeneratorParked
  /\ UpgradeParked

NextConstants ==
  /\ ConstantsNext
  /\ UNCHANGED <<txVars, gasVars, eventVars, bulkVars, lobbyVars, mnemonicVars,
                 subscriptionVars, planetsVars, byIdVars, generatorVars,
                 upgradeVars>>

SpecConstants == InitConstants /\ [][NextConstants]_vars

InitSubscription ==
  /\ TxInit
  /\ GasParked
  /\ EventInit
  /\ BulkInit
  /\ LobbyParked
  /\ MnemonicInit
  /\ ConstantsParked
  /\ SubscriptionInit
  /\ PlanetsParked
  /\ ByIdParked
  /\ GeneratorParked
  /\ UpgradeParked

NextSubscription ==
  /\ SubscriptionNext
  /\ UNCHANGED <<txVars, gasVars, eventVars, bulkVars, lobbyVars, mnemonicVars,
                 constantsVars, planetsVars, byIdVars, generatorVars,
                 upgradeVars>>

SpecSubscription == InitSubscription /\ [][NextSubscription]_vars

InitPlanets ==
  /\ TxInit
  /\ GasParked
  /\ EventInit
  /\ BulkInit
  /\ LobbyParked
  /\ MnemonicInit
  /\ ConstantsParked
  /\ SubscriptionInit
  /\ PlanetsInit
  /\ ByIdParked
  /\ GeneratorParked
  /\ UpgradeParked

NextPlanets ==
  /\ PlanetsNext
  /\ UNCHANGED <<txVars, gasVars, eventVars, bulkVars, lobbyVars, mnemonicVars,
                 constantsVars, subscriptionVars, byIdVars, generatorVars,
                 upgradeVars>>

SpecPlanets == InitPlanets /\ [][NextPlanets]_vars

InitById ==
  /\ TxInit
  /\ GasParked
  /\ EventInit
  /\ BulkInit
  /\ LobbyParked
  /\ MnemonicInit
  /\ ConstantsParked
  /\ SubscriptionInit
  /\ PlanetsParked
  /\ ByIdInit
  /\ GeneratorParked
  /\ UpgradeParked

NextById ==
  /\ ByIdNext
  /\ UNCHANGED <<txVars, gasVars, eventVars, bulkVars, lobbyVars, mnemonicVars,
                 constantsVars, subscriptionVars, planetsVars, generatorVars,
                 upgradeVars>>

SpecById == InitById /\ [][NextById]_vars

InitGenerator ==
  /\ TxInit
  /\ GasParked
  /\ EventInit
  /\ BulkInit
  /\ LobbyParked
  /\ MnemonicInit
  /\ ConstantsParked
  /\ SubscriptionInit
  /\ PlanetsParked
  /\ ByIdParked
  /\ GeneratorInit
  /\ UpgradeParked

NextGenerator ==
  /\ GeneratorNext
  /\ UNCHANGED <<txVars, gasVars, eventVars, bulkVars, lobbyVars, mnemonicVars,
                 constantsVars, subscriptionVars, planetsVars, byIdVars,
                 upgradeVars>>

SpecGenerator == InitGenerator /\ [][NextGenerator]_vars

InitUpgrade ==
  /\ TxInit
  /\ GasParked
  /\ EventInit
  /\ BulkInit
  /\ LobbyParked
  /\ MnemonicInit
  /\ ConstantsParked
  /\ SubscriptionInit
  /\ PlanetsParked
  /\ ByIdParked
  /\ GeneratorParked
  /\ UpgradeInit

NextUpgrade ==
  /\ UpgradeNext
  /\ UNCHANGED <<txVars, gasVars, eventVars, bulkVars, lobbyVars, mnemonicVars,
                 constantsVars, subscriptionVars, planetsVars, byIdVars,
                 generatorVars>>

SpecUpgrade == InitUpgrade /\ [][NextUpgrade]_vars
====
